---- MODULE Spec2Model ----
(***************************************************************************)
(* A model of robot_format_converter: the conversion engine (core.py), the *)
(* schema's structural validation (schema.py), name sanitisation and       *)
(* format detection (utils.py) and the URDF and MJCF parsers (parsers.py). *)
(*                                                                         *)
(* Names (link, joint, robot names) are sequences of one-character strings *)
(* so that sanitize_name can be modelled character by character.           *)
(***************************************************************************)
EXTENDS Integers, Sequences, FiniteSets, TLC

VARIABLES
    parsers,      \* ConversionEngine.parsers: the registered parser keys
    exporters,    \* ConversionEngine.exporters: the registered exporter keys
    call,         \* the frame of the current (or last) ConversionEngine.convert
    trace,        \* the calls convert made on the parser, validator, exporter
    written,      \* the output paths written since the top-level operation began
    batch,        \* the frame of the current (or last) batch_convert
    pp,           \* the frame of the current (or last) parser.parse of a document
    ex,           \* the frame of the last exporter.export: the schema, the file
    cp,           \* the frame of the last parser.can_parse: the file, the answer
    frames,       \* the frames of the parse calls of a batch, one per call
    heap          \* the ParseContext objects those calls created, by address

engineVars == <<parsers, exporters, call, trace, written, batch>>
vars == <<parsers, exporters, call, trace, written, batch, pp, ex, cp,
          frames, heap>>

(***************************************************************************)
(* Bounds of the model.                                                    *)
(***************************************************************************)
MaxJoints == 1
MaxDocLinks == 2
MaxDocJoints == 3
MaxAxis == 2
MaxSize == 4
MaxInertia == 2
MaxMotors == 2
MaxTreeJoints == 3
MaxVisuals == 2
MaxCalls == 2

(***************************************************************************)
(* Generic helpers.                                                        *)
(***************************************************************************)
None == "None"

NoName == <<>>

Range(s) == {s[i] : i \in 1..Len(s)}

BoundedSeq(S, n) == UNION {[1..k -> S] : k \in 0..n}

RECURSIVE ConcatAll(_)
ConcatAll(ss) == IF ss = <<>> THEN <<>> ELSE Head(ss) \o ConcatAll(Tail(ss))

Perms(S) == {p \in [1..Cardinality(S) -> S] : Range(p) = S}

nA == <<"a">>
nB == <<"b">>
nJ1 == <<"j", "1">>
nJ2 == <<"j", "2">>
nM1 == <<"m", "1">>
nS1 == <<"s", "1">>
nC == <<"c">>
World == <<"w", "o", "r", "l", "d">>

(***************************************************************************)
(* schema.py: CommonSchema and its accessors.                              *)
(***************************************************************************)
NoExtensions == [attached |-> FALSE, warnings |-> <<>>, errors |-> <<>>,
                 materials |-> {}, meshes |-> {},
                 keys |-> {}]

CommonSchema(name, links, joints, actuators, sensors) ==
    [name |-> name, links |-> links, joints |-> joints,
     actuators |-> actuators, sensors |-> sensors,
     extensions |-> NoExtensions]

EmptySchema == CommonSchema(NoName, <<>>, <<>>, <<>>, <<>>)

Issue(msg, subject, ref) == [msg |-> msg, subject |-> subject, ref |-> ref]

\* get_link(name) is not None
get_link(s, name) == \E i \in 1..Len(s.links) : s.links[i].name = name

\* get_joint(name) is not None
get_joint(s, name) == \E i \in 1..Len(s.joints) : s.joints[i].name = name

get_root_links(s) ==
    LET child_links == {s.joints[i].child_link : i \in 1..Len(s.joints)}
        IsRoot(l) == l.name \notin child_links
    IN  SelectSeq(s.links, IsRoot)

validate(s) ==
    LET link_names == [i \in 1..Len(s.links) |-> s.links[i].name]
        joint_names == [i \in 1..Len(s.joints) |-> s.joints[i].name]
        dupLinks == IF Len(link_names) # Cardinality(Range(link_names))
                    THEN <<Issue("Duplicate link names found", NoName, NoName)>>
                    ELSE <<>>
        dupJoints == IF Len(joint_names) # Cardinality(Range(joint_names))
                     THEN <<Issue("Duplicate joint names found", NoName, NoName)>>
                     ELSE <<>>
        jointIssues(j) ==
            (IF ~get_link(s, j.parent_link)
             THEN <<Issue("Joint references unknown parent link", j.name, j.parent_link)>>
             ELSE <<>>)
            \o
            (IF ~get_link(s, j.child_link)
             THEN <<Issue("Joint references unknown child link", j.name, j.child_link)>>
             ELSE <<>>)
        actuatorIssues(a) ==
            IF ~get_joint(s, a.joint)
            THEN <<Issue("Actuator references unknown joint", a.name, a.joint)>>
            ELSE <<>>
        sensorIssues(x) ==
            IF ~get_link(s, x.parent_link)
            THEN <<Issue("Sensor references unknown parent link", x.name, x.parent_link)>>
            ELSE <<>>
        loops == IF Len(get_root_links(s)) = 0
                 THEN <<Issue("No root links found - possible kinematic loop", NoName, NoName)>>
                 ELSE <<>>
    IN  dupLinks \o dupJoints
        \o ConcatAll([i \in 1..Len(s.joints) |-> jointIssues(s.joints[i])])
        \o ConcatAll([i \in 1..Len(s.actuators) |-> actuatorIssues(s.actuators[i])])
        \o ConcatAll([i \in 1..Len(s.sensors) |-> sensorIssues(s.sensors[i])])
        \o loops

(***************************************************************************)
(* The file system the engine works on.  A path is the sequence of the     *)
(* dot-separated components of its file name; the input directory holds    *)
(* DirFiles, and RootTag is the root element of each file's XML.           *)
(***************************************************************************)
F_r1 == <<"r1", "urdf">>
F_r2 == <<"r2", "urdf">>
F_m == <<"m", "xml">>
F_txt == <<"notes", "txt">>
F_gone == <<"gone", "urdf">>

DirFiles == {F_r1, F_r2, F_m, F_txt}

\* files outside the input directory: MJCF content under the name x.urdf,
\* and the input.mock of the tests, which is not XML
F_x == <<"x", "urdf">>
F_k == <<"input", "mock">>

OtherFiles == {F_x, F_k}

RootTag(f) ==
    CASE f \in {F_m, F_x} -> "mujoco"
      [] f \in {F_txt, F_k} -> "malformed"
      [] OTHER -> "robot"

\* Path.exists()
exists(f) == f \in DirFiles \cup OtherFiles

\* Path.suffix: "" for a name without a dot, else the last component
suffix(f) == IF Len(f) >= 2 THEN f[Len(f)] ELSE ""

\* Path.stem: the name without its last suffix
stem(f) == IF Len(f) >= 2 THEN SubSeq(f, 1, Len(f) - 1) ELSE f

\* str.lower() on the format names the model uses
lower(fmt) ==
    CASE fmt = "URDF" -> "urdf"
      [] fmt = "MJCF" -> "mjcf"
      [] fmt = "XML" -> "xml"
      [] OTHER -> fmt

\* utils._detect_xml_format: the root tag decides
detect_xml_format(f) ==
    CASE RootTag(f) = "robot" -> "urdf"
      [] RootTag(f) = "sdf" -> "sdf"
      [] RootTag(f) = "mujoco" -> "mjcf"
      [] RootTag(f) = "world" -> "sdf"
      [] OTHER -> None

\* utils.detect_format: the extension first, the content for .xml
detect_format(f) ==
    LET ext == lower(suffix(f))
    IN  IF ~exists(f) THEN None
        ELSE CASE ext = "urdf" -> "urdf"
               [] ext \in {"sdf", "world"} -> "sdf"
               [] ext = "mjcf" -> "mjcf"
               [] ext \in {"yaml", "yml", "json"} -> "schema"
               [] ext \in {"usd", "usda"} -> "usd"
               [] ext = "xml" -> detect_xml_format(f)
               [] OTHER -> None

(***************************************************************************)
(* The schemas a registered parser may return to the engine.  The engine   *)
(* dispatches by format name only (BaseParser is abstract), so parse is    *)
(* any schema of SchemaInputs or a raised ParseError.                      *)
(***************************************************************************)
LinkLists == {<<>>, <<[name |-> nA]>>, <<[name |-> nA], [name |-> nB]>>,
              <<[name |-> nA], [name |-> nA]>>,
              <<[name |-> nA], [name |-> nB], [name |-> nC]>>}

JointInputs == [name : {nJ1, nJ2}, parent_link : {nA, nB, World},
                child_link : {nA, nB}]

AuxInputs == {[actuators |-> <<>>, sensors |-> <<>>],
              [actuators |-> <<[name |-> nM1, joint |-> nJ1]>>, sensors |-> <<>>],
              [actuators |-> <<>>, sensors |-> <<[name |-> nS1, parent_link |-> nB]>>]}

SchemaInputs ==
    {CommonSchema(<<"r">>, ls, js, aux.actuators, aux.sensors) :
        ls \in LinkLists, js \in BoundedSeq(JointInputs, MaxJoints),
        aux \in AuxInputs}

(***************************************************************************)
(* core.py: ConversionEngine and FormatConverter.                          *)
(***************************************************************************)
RegisterArgs == {"URDF"}
ParserArgs == {"URDF", "mock"}
FormatArgs == {"urdf", "mjcf"}
OutPath == <<"o", "MJCF">>

NoError == [type |-> "none", msg |-> "", issues |-> <<>>]
Raise(type, msg) == [type |-> type, msg |-> msg, issues |-> <<>>]

NoCall == [status |-> "none", stage |-> "none", by |-> "none",
           input |-> NoName, output |-> NoName,
           source_arg |-> None,
           source_format |-> None, target_format |-> None,
           validation |-> FALSE, schema |-> EmptySchema, error |-> NoError]

NoBatch == [status |-> "none", phase |-> "none", source_format |-> None,
            target_format |-> None, pattern |-> <<>>,
            input_files |-> <<>>, idx |-> 0,
            converted_files |-> <<>>, outcomes |-> <<>>]

Idle == call.status # "running" /\ batch.status # "running"

\* ConversionEngine.register_parser
register_parser(format_name) ==
    /\ Idle
    /\ parsers' = parsers \cup {lower(format_name)}
    /\ call' = NoCall /\ batch' = NoBatch /\ trace' = <<>> /\ written' = {}
    /\ UNCHANGED <<exporters, pp, ex, cp, frames, heap>>

\* ConversionEngine.register_exporter
register_exporter(format_name) ==
    /\ Idle
    /\ exporters' = exporters \cup {lower(format_name)}
    /\ call' = NoCall /\ batch' = NoBatch /\ trace' = <<>> /\ written' = {}
    /\ UNCHANGED <<parsers, pp, ex, cp, frames, heap>>

\* convert with the exporter looked up only after parsing (a faulty variant)
convert_enter_late_lookup(input, output, source_arg, target_arg, validation, by) ==
    LET frame == [NoCall EXCEPT !.by = by, !.input = input, !.output = output,
                                !.validation = validation,
                                !.source_arg = source_arg,
                                !.source_format = source_arg,
                                !.target_format = target_arg]
        source_format == IF source_arg = None THEN detect_format(input)
                         ELSE source_arg
        target_format == IF target_arg = None THEN lower(suffix(output))
                         ELSE target_arg
        resolved == [frame EXCEPT !.source_format = source_format,
                                  !.target_format = target_format]
        raised(f, type, msg) ==
            [f EXCEPT !.status = "raised", !.error = Raise(type, msg)]
    IN  IF ~exists(input)
        THEN raised(frame, "FileNotFoundError", "Input file not found")
        ELSE IF source_format = None
        THEN raised(frame, "ValueError", "Cannot detect format")
        ELSE IF lower(source_format) \notin parsers
        THEN raised(resolved, "ValueError", "No parser available for format")
        ELSE [resolved EXCEPT !.status = "running", !.stage = "parse"]

\* ConversionEngine.convert up to the call of parser.parse: the checks of the
\* input path and the resolution of both formats
convert_enter(input, output, source_arg, target_arg, validation, by) ==
    LET frame == [NoCall EXCEPT !.by = by, !.input = input, !.output = output,
                                !.validation = validation,
                                !.source_arg = source_arg,
                                !.source_format = source_arg,
                                !.target_format = target_arg]
        source_format == IF source_arg = None THEN detect_format(input)
                         ELSE source_arg
        target_format == IF target_arg = None THEN lower(suffix(output))
                         ELSE target_arg
        resolved == [frame EXCEPT !.source_format = source_format,
                                  !.target_format = target_format]
        raised(f, type, msg) ==
            [f EXCEPT !.status = "raised", !.error = Raise(type, msg)]
    IN  IF ~exists(input)
        THEN raised(frame, "FileNotFoundError", "Input file not found")
        ELSE IF source_format = None
        THEN raised(frame, "ValueError", "Cannot detect format")
        ELSE IF lower(source_format) \notin parsers
        THEN raised(resolved, "ValueError", "No parser available for format")
        ELSE IF lower(target_format) \notin exporters
        THEN raised(resolved, "ValueError", "No exporter available for format")
        ELSE [resolved EXCEPT !.status = "running", !.stage = "parse"]

\* a top-level call of ConversionEngine.convert
convert(input, output, source_arg, target_arg, validation) ==
    /\ Idle
    /\ call' = convert_enter(input, output, source_arg, target_arg,
                             validation, "direct")
    /\ trace' = <<>> /\ written' = {} /\ batch' = NoBatch
    /\ UNCHANGED <<parsers, exporters, pp, ex, cp, frames, heap>>

\* one call convert makes, with the schema it passes or receives
Called(op, schema) == [op |-> op, schema |-> schema]

\* convert validating whatever the validation argument says (a faulty variant)
after_parse_always_validates(frame, r) ==
    [frame EXCEPT !.schema = r, !.stage = "validate"]

\* schema = parser.parse(input_path) returned: validation runs next only when
\* it was asked for
after_parse(frame, r) ==
    [frame EXCEPT !.schema = r,
                  !.stage = IF frame.validation THEN "validate" ELSE "export"]

\* schema = parser.parse(input_path)
convert_parse ==
    /\ call.status = "running" /\ call.stage = "parse"
    /\ \E r \in SchemaInputs \cup {EmptySchema} :
          /\ trace' = Append(trace, Called("parse", r))
          /\ call' = IF r = EmptySchema
                     THEN [call EXCEPT !.status = "raised",
                                       !.error = Raise("ParseError", "XML parsing error")]
                     ELSE after_parse(call, r)
    /\ UNCHANGED <<parsers, exporters, written, batch, pp, ex, cp, frames, heap>>

\* validate_schema reporting only the first issue (a faulty variant)
validate_schema_first_issue(frame) ==
    LET issues == validate(frame.schema)
    IN  IF issues # <<>>
        THEN [frame EXCEPT !.status = "raised",
                           !.error = [type |-> "ValueError",
                                      msg |-> "Schema validation failed",
                                      issues |-> SubSeq(issues, 1, 1)]]
        ELSE [frame EXCEPT !.stage = "export"]

\* utils.validate_schema: raises ValueError with every issue of validate()
validate_schema(frame) ==
    LET issues == validate(frame.schema)
    IN  IF issues # <<>>
        THEN [frame EXCEPT !.status = "raised",
                           !.error = [type |-> "ValueError",
                                      msg |-> "Schema validation failed",
                                      issues |-> issues]]
        ELSE [frame EXCEPT !.stage = "export"]

\* if validation: validate_schema(schema)
convert_validate ==
    /\ call.status = "running" /\ call.stage = "validate"
    /\ trace' = Append(trace, Called("validate", call.schema))
    /\ call' = validate_schema(call)
    /\ UNCHANGED <<parsers, exporters, written, batch, pp, ex, cp, frames, heap>>

\* exporter.export(schema, output_path): writes the file, or fails with an
\* I/O error and writes nothing
convert_export ==
    /\ call.status = "running" /\ call.stage = "export"
    /\ trace' = Append(trace, Called("export", call.schema))
    /\ \E ok \in BOOLEAN :
          /\ call' = IF ok
                     THEN [call EXCEPT !.status = "returned", !.stage = "done"]
                     ELSE [call EXCEPT !.status = "raised",
                                       !.error = Raise("OSError", "cannot write")]
          /\ written' = IF ok THEN written \cup {call.output} ELSE written
    /\ UNCHANGED <<parsers, exporters, batch, pp, ex, cp, frames, heap>>

\* A file pattern, like a path, is the sequence of its dot-separated
\* components: "*" and "*.urdf"
Star == <<"*">>
Patterns == {Star, <<"*", "urdf">>}

\* input_dir.glob(f"{pattern}{ext}") with ext = f".{source_format}": the
\* extension is appended to the pattern, and a file matches when its name
\* ends with the components that follow the "*"
glob(pattern, source_format) ==
    LET ending == Tail(pattern) \o <<source_format>>
    IN  {f \in DirFiles :
            /\ Len(f) > Len(ending)
            /\ SubSeq(f, Len(f) - Len(ending) + 1, Len(f)) = ending}

\* output_dir / (input_file.stem + target_ext)
output_file(input_file, target_format) == Append(stem(input_file), target_format)

\* FormatConverter.batch_convert up to its loop: the matching files, in the
\* order the directory lists them
batch_convert(source_format, target_format, pattern) ==
    /\ Idle
    /\ \E input_files \in Perms(glob(pattern, source_format)) :
          batch' = [NoBatch EXCEPT
                       !.status = IF input_files = <<>> THEN "returned" ELSE "running",
                       !.phase = IF input_files = <<>> THEN "none" ELSE "next",
                       !.source_format = source_format,
                       !.target_format = target_format,
                       !.pattern = pattern,
                       !.input_files = input_files, !.idx = 1]
    /\ call' = NoCall /\ trace' = <<>> /\ written' = {}
    /\ UNCHANGED <<parsers, exporters, pp, ex, cp, frames, heap>>

\* FormatConverter.convert(self, input_path, output_path, **kwargs): binds two
\* positional arguments and hands the keyword arguments to the engine's
\* convert; a call with more positional arguments raises TypeError before the
\* engine is reached
FormatConverter_convert(positional, by) ==
    IF Len(positional) > 2
    THEN [NoCall EXCEPT !.by = by, !.status = "raised",
                        !.input = positional[1], !.output = positional[2],
                        !.error = Raise("TypeError",
                                        "convert() takes 3 positional arguments")]
    ELSE convert_enter(positional[1], positional[2], None, None, TRUE, by)

\* the loop body's try: self.convert(input_file, output_file, source_format,
\* target_format)
batch_iter ==
    /\ batch.status = "running" /\ batch.phase = "next"
    /\ batch.idx <= Len(batch.input_files)
    /\ LET input_file == batch.input_files[batch.idx]
       IN  call' = FormatConverter_convert(
                      <<input_file, output_file(input_file, batch.target_format),
                        batch.source_format, batch.target_format>>, "batch")
    /\ trace' = <<>>
    /\ batch' = [batch EXCEPT !.phase = "wait"]
    /\ UNCHANGED <<parsers, exporters, written, pp, ex, cp, frames, heap>>

\* the loop body after convert: converted_files.append(output_file), or the
\* except clause that logs the failure; outcomes keeps how each call ended
\* and the calls it made on the parser, validator and exporter
batch_collected(b, c, t) ==
    [b EXCEPT !.converted_files = IF c.status = "returned"
                                  THEN Append(@, c.output) ELSE @,
              !.outcomes = Append(@, [status |-> c.status,
                                      error |-> c.error.type,
                                      calls |-> [i \in 1..Len(t) |-> t[i].op]]),
              !.idx = @ + 1,
              !.phase = "next"]

batch_collect ==
    /\ batch.status = "running" /\ batch.phase = "wait"
    /\ call.status \in {"returned", "raised"}
    /\ batch' = batch_collected(batch, call, trace)
    /\ UNCHANGED <<parsers, exporters, call, trace, written, pp, ex, cp, frames, heap>>

\* return converted_files
batch_return ==
    /\ batch.status = "running" /\ batch.phase = "next"
    /\ batch.idx > Len(batch.input_files)
    /\ batch' = [batch EXCEPT !.status = "returned", !.phase = "none"]
    /\ UNCHANGED <<parsers, exporters, call, trace, written, pp, ex, cp, frames, heap>>

(***************************************************************************)
(* utils.sanitize_name, on names as sequences of characters.               *)
(***************************************************************************)
Letters == {"a", "b", "c", "d", "e", "f", "g", "h", "i", "j", "k", "l", "m",
            "n", "o", "p", "q", "r", "s", "t", "u", "v", "w", "x", "y", "z"}
Digits == {"0", "1", "2", "3", "4", "5", "6", "7", "8", "9"}

\* the characters the pattern [^\w\-] leaves alone
IsWordOrHyphen(c) == c \in Letters \cup Digits \cup {"_", "-"}

Unnamed == <<"u", "n", "n", "a", "m", "e", "d">>

sanitize_name(name) ==
    LET replaced == [i \in 1..Len(name) |->
                        IF IsWordOrHyphen(name[i]) THEN name[i] ELSE "_"]
        sanitized == IF replaced # <<>> /\ replaced[1] \in Digits
                     THEN <<"_">> \o replaced ELSE replaced
    IN  IF sanitized = <<>> THEN Unnamed ELSE sanitized

(***************************************************************************)
(* parsers.py: ParseContext.  A diagnostic keeps the message, the name the *)
(* message interpolates (arg) and the element prefix; `at' is the document *)
(* element whose parsing recorded it.                                      *)
(***************************************************************************)
\* an attribute or child element the document does not have
NoAttr == <<"None">>
NoElem == <<"NoElem">>

At(kind, path) == [kind |-> kind, path |-> path]

Diag(message, arg, element, at) ==
    [message |-> message, arg |-> arg,
     element |-> IF element \in {NoAttr, <<>>} THEN NoName ELSE element,
     at |-> at]

ParseContext == [materials |-> {}, meshes |-> {}, warnings |-> <<>>,
                 errors |-> <<>>]

add_warning(context, message, arg, element, at) ==
    [context EXCEPT !.warnings = Append(@, Diag(message, arg, element, at))]

add_error(context, message, arg, element, at) ==
    [context EXCEPT !.errors = Append(@, Diag(message, arg, element, at))]

(***************************************************************************)
(* The documents handed to the parsers.  A document is the parsed XML: the *)
(* root's name attribute and its child elements in document order, each    *)
(* element with the attributes and children the parsers read.              *)
(***************************************************************************)
InjectiveSeq(S, n) ==
    {q \in BoundedSeq(S, n) : \A i, k \in 1..Len(q) : q[i] = q[k] => i = k}

\* Numbers that are halved and doubled (geometry sizes) are exact fractions
\* num / den in lowest terms, den > 0
RECURSIVE GCD(_, _)
GCD(a, b) == IF b = 0 THEN a ELSE GCD(b, a % b)

Abs(x) == IF x < 0 THEN 0 - x ELSE x

Q(n, d) == LET g == GCD(Abs(n), d) IN [num |-> n \div g, den |-> d \div g]

\* x / 2 and x * 2
QHalf(q) == Q(q.num, q.den * 2)
QDouble(q) == Q(q.num * 2, q.den)

\* A number as text, str(x) or f"{x}", and text that float() rejects.  An
\* attribute is the sequence of the words split() finds in it.
Num(x) == [word |-> "number", value |-> x]
NotNum == [word |-> "text", value |-> 0]
Attr(words) == [present |-> TRUE, words |-> words]
AbsentAttr == [present |-> FALSE, words |-> <<>>]

\* [float(x) for x in attr.split()]: ok = FALSE is the ValueError
floats(attr) ==
    [ok |-> \A i \in 1..Len(attr.words) : attr.words[i].word = "number",
     values |-> [i \in 1..Len(attr.words) |-> attr.words[i].value]]

\* schema.py: Inertia, Geometry, Visual, Collision.  An Optional field is
\* a record with `some' = FALSE for None.
Inertia(ixx, iyy, izz, ixy, ixz, iyz) ==
    [ixx |-> ixx, iyy |-> iyy, izz |-> izz, ixy |-> ixy, ixz |-> ixz,
     iyz |-> iyz]
ZeroInertia == Inertia(0, 0, 0, 0, 0, 0)

Some(v) == [some |-> TRUE, v |-> v]
NoSize == [some |-> FALSE, v |-> <<Q(0, 1), Q(0, 1), Q(0, 1)>>]
NoNumber == [some |-> FALSE, v |-> Q(0, 1)]

Geometry(type, size, radius, length) ==
    [type |-> type, size |-> size, radius |-> radius, length |-> length]

Box(size) == Geometry("box", Some(size), NoNumber, NoNumber)

\* Material: the name (None, the empty string or a string); the material
\* of a visual that has none is None
Material(name) == [present |-> TRUE, name |-> name]
NoMaterial == [present |-> FALSE, name |-> <<"None">>]

\* Visual and Collision: the name, the geometry and whether there is a pose
Visual(name, geometry, has_pose) ==
    [name |-> name, geometry |-> geometry, has_pose |-> has_pose,
     material |-> NoMaterial]
Collision(name, geometry, has_pose) ==
    [name |-> name, geometry |-> geometry, has_pose |-> has_pose]

\* <inertia ixx=... iyy=... izz=... ixy=... ixz=... iyz=.../> of a URDF
\* <inertial>, and an <inertial> without it
InertiaElem(ixx, iyy, izz, ixy, ixz, iyz) ==
    [present |-> TRUE, ixx |-> ixx, iyy |-> iyy, izz |-> izz, ixy |-> ixy,
     ixz |-> ixz, iyz |-> iyz]
NoInertiaElem ==
    [present |-> FALSE, ixx |-> Num(0), iyy |-> Num(0), izz |-> Num(0),
     ixy |-> Num(0), ixz |-> Num(0), iyz |-> Num(0)]

\* <geom type=... size=... group=.../> of an MJCF body, with or without pos
GeomElem(type, size, group, has_pos) ==
    [type |-> type, size |-> size, group |-> group, has_pos |-> has_pos]

\* <mass value=.../> inside <inertial>: absent, not a number, or a number
Mass(kind, value) == [kind |-> kind, value |-> value]
NoMass == Mass("absent", 0)

\* <visual> and <collision> of a URDF <link>: the <geometry> child (missing,
\* without a shape the parser accepts, or a shape) and the <origin> child
\* (absent, with xyz and rpy that parse, or with text that does not)
GeometryElem(kind, shape) == [kind |-> kind, shape |-> shape]
NoGeometryElem == GeometryElem("missing", Box(NoSize.v))
ShapeElem(geometry, origin) == [geometry |-> geometry, origin |-> origin]

LinkElem(name, mass) ==
    [name |-> name, mass |-> mass, inertia |-> NoInertiaElem,
     visuals |-> <<>>, collisions |-> <<>>]

\* The xyz of a joint's <axis> (the axis attribute of an MJCF <joint>):
\* absent, text that is not numeric, numbers but not three of them, three
\* numbers, or three numbers one of which is so large that its square is
\* beyond the range of a float ("overflow"); "scaled" is the text an exporter
\* writes for a schema axis, the components num[i] / sqrt(den2), whose
\* magnitude is zero or far above the threshold.  The components are integer multiples of AxisUnit = 5e-7, so the
\* parsers' threshold 1e-6 is AxisThreshold = 2 units and a magnitude is
\* compared through its square.
AxisAttr(kind, value) == [kind |-> kind, value |-> value]
NoAxis == AxisAttr("absent", <<0, 0, 0>>)
AxisThreshold == 2
AxisVectors == [1..3 -> (0 - MaxAxis)..MaxAxis]
AxisAttrs == {NoAxis, AxisAttr("invalid", <<0, 0, 0>>),
              AxisAttr("short", <<0, 0, 0>>),
              AxisAttr("overflow", <<0, 0, 0>>)}
             \cup {AxisAttr("vector", v) : v \in AxisVectors}

\* x**2 + y**2 + z**2
SumSq(v) == v[1] * v[1] + v[2] * v[2] + v[3] * v[3]

\* Vector3(x / magnitude, y / magnitude, z / magnitude), kept exactly as the
\* components and the square of the magnitude they are divided by
Vector3Over(v, magnitude2) == [num |-> v, den2 |-> magnitude2]

\* Joint.axis defaults to Vector3(0, 0, 1)
DefaultAxis == Vector3Over(<<0, 0, 1>>, 1)

JointElem(name, type, parent, child) ==
    [name |-> name, type |-> type, parent |-> parent, child |-> child,
     axis |-> NoAxis]

nCsp == <<"c", " ">>
nJ3 == <<"j", "3">>
nJ4 == <<"j", "4">>
nJ5 == <<"j", "5">>
nJ6 == <<"j", "6">>

\* the link elements of the documents: two sound links (one with a negative
\* mass), a link whose name sanitisation changes and whose mass is not a
\* number, and a link without a name
URDFLinkElems ==
    {LinkElem(nA, Mass("number", 1)),
     LinkElem(nB, Mass("number", -1)),
     LinkElem(nCsp, Mass("invalid", 0)),
     LinkElem(NoAttr, NoMass)}

\* the joint elements: a -> b, b -> a, world -> a, a -> "c " (unresolved
\* unless the link "c " is declared), a joint of an unsupported type and a
\* joint without a child element
URDFJointElems ==
    {JointElem(nJ1, "revolute", nA, nB),
     JointElem(nJ2, "revolute", nB, nA),
     JointElem(nJ3, "fixed", World, nA),
     JointElem(nJ4, "revolute", nA, nCsp),
     JointElem(nJ5, "bogus", nA, nB),
     JointElem(nJ6, "fixed", nB, NoElem)}

Doc(format, wellformed, name, links, joints, worldbody, bodies) ==
    [format |-> format, wellformed |-> wellformed, name |-> name,
     links |-> links, joints |-> joints,
     worldbody |-> worldbody, bodies |-> bodies, motors |-> <<>>,
     elements |-> <<>>, materials |-> <<>>]

NoDoc == Doc("none", FALSE, NoAttr, <<>>, <<>>, FALSE, <<>>)

\* the names a document declares for its robot besides a plain one: none
\* (the attribute, or the key in a schema file, is missing), the empty
\* string, names made only of characters sanitisation replaces, and a name
\* that starts with a digit
DeclaredNames == {NoAttr, <<>>, <<" ">>, <<"!", " ">>, <<"1", "r">>}

URDFDocs ==
    {Doc("urdf", FALSE, NoAttr, <<>>, <<>>, FALSE, <<>>)}
    \cup {Doc("urdf", TRUE, name, links, joints, FALSE, <<>>) :
            name \in {<<"r">>, <<>>},
            links \in InjectiveSeq(URDFLinkElems, MaxDocLinks),
            joints \in InjectiveSeq(URDFJointElems, MaxDocJoints)}
    \cup {Doc("urdf", TRUE, name, links, <<>>, FALSE, <<>>) :
            name \in DeclaredNames,
            links \in {<<>>, <<LinkElem(nA, Mass("number", 1))>>}}

\* <body>: its name, whether it has a quat attribute but no pos attribute,
\* the mass, diaginertia and fullinertia of its <inertial>, its <geom>
\* elements, its <joint> and its child bodies
NoJointElem == [present |-> FALSE, name |-> NoAttr, type |-> "hinge",
                axis |-> NoAxis]
MJCFJointElem(name, type) == [present |-> TRUE, name |-> name, type |-> type,
                              axis |-> NoAxis]

BodyElem(name, quat_without_pos, mass, joint, children) ==
    [name |-> name, quat_without_pos |-> quat_without_pos, mass |-> mass,
     diaginertia |-> AbsentAttr, fullinertia |-> AbsentAttr, geoms |-> <<>>,
     joint |-> joint, children |-> children]

\* the bodies without children: a sound body, a body with an explicit joint
\* and a mass that is not a number, a body without a name and a body with
\* quat but no pos
MJCFBodyLeaves ==
    {BodyElem(nA, FALSE, Mass("number", 1), NoJointElem, <<>>),
     BodyElem(nB, FALSE, Mass("invalid", 0), MJCFJointElem(nJ1, "hinge"), <<>>),
     BodyElem(NoAttr, FALSE, NoMass, NoJointElem, <<>>),
     BodyElem(nC, TRUE, NoMass, NoJointElem, <<>>)}

\* the bodies of the documents: a leaf, or a leaf's attributes around one
\* child body
MJCFBodies ==
    MJCFBodyLeaves
    \cup {[b EXCEPT !.children = <<c>>] : b \in MJCFBodyLeaves, c \in MJCFBodyLeaves}

\* <motor name=... joint=.../> of <actuator>: a sound motor, a motor without
\* a name, a motor whose joint attribute is empty, and a motor whose name
\* sanitisation changes and whose joint is not a joint of the model
MotorElem(name, joint) == [name |-> name, joint |-> joint]

MotorElems ==
    {MotorElem(nM1, nJ1), MotorElem(NoAttr, nJ1), MotorElem(nS1, <<>>),
     MotorElem(nCsp, nJ2)}

\* the model with motors: the body a around the body b with the joint j1
MotorBodies ==
    <<BodyElem(nA, FALSE, Mass("number", 1), NoJointElem,
               <<BodyElem(nB, FALSE, NoMass, MJCFJointElem(nJ1, "hinge"), <<>>)>>)>>

MJCFDocs ==
    {Doc("mjcf", FALSE, NoAttr, <<>>, <<>>, FALSE, <<>>),
     Doc("mjcf", TRUE, <<"m">>, <<>>, <<>>, FALSE, <<>>),
     Doc("mjcf", TRUE, NoAttr, <<>>, <<>>, FALSE, <<>>)}
    \cup {Doc("mjcf", TRUE, <<"m">>, <<>>, <<>>, TRUE, bodies) :
            bodies \in InjectiveSeq(MJCFBodies, MaxDocLinks)}
    \cup {[Doc("mjcf", TRUE, <<"m">>, <<>>, <<>>, TRUE, MotorBodies)
              EXCEPT !.motors = motors] :
            motors \in InjectiveSeq(MotorElems, MaxMotors) \ {<<>>}}
    \cup {Doc("mjcf", TRUE, name, <<>>, <<>>, worldbody, <<>>) :
            name \in DeclaredNames, worldbody \in BOOLEAN}

\* the documents with a joint axis: a URDF robot with the links a and b and
\* the joint j1 from a to b, and an MJCF model with the body a around the
\* body b, the joint on b (parsed) or on a (a body directly under worldbody)
URDFAxisDocs ==
    {Doc("urdf", TRUE, <<"r">>,
         <<LinkElem(nA, Mass("number", 1)), LinkElem(nB, NoMass)>>,
         <<[JointElem(nJ1, type, nA, nB) EXCEPT !.axis = axis]>>, FALSE, <<>>) :
        type \in {"revolute", "bogus"}, axis \in AxisAttrs}

MJCFAxisDocs ==
    LET inner(j) == BodyElem(nB, FALSE, NoMass, j, <<>>)
        outer(j, c) == BodyElem(nA, FALSE, NoMass, j, <<c>>)
        jt(axis) == [MJCFJointElem(nJ1, "hinge") EXCEPT !.axis = axis]
    IN  {Doc("mjcf", TRUE, <<"m">>, <<>>, <<>>, TRUE,
             <<outer(NoJointElem, inner(jt(axis)))>>) : axis \in AxisAttrs}
        \cup {Doc("mjcf", TRUE, <<"m">>, <<>>, <<>>, TRUE,
                  <<outer(jt(axis), inner(NoJointElem))>>) : axis \in AxisAttrs}

(***************************************************************************)
(* parsers.py: URDFParser.                                                 *)
(***************************************************************************)
Link(name, mass) ==
    [name |-> name, mass |-> mass, inertia |-> ZeroInertia,
     visuals |-> <<>>, collisions |-> <<>>]

Joint(name, type, parent_link, child_link) ==
    [name |-> name, type |-> type, parent_link |-> parent_link,
     child_link |-> child_link, axis |-> DefaultAxis]

\* URDFParser._validate_inertia
_validate_inertia(inertia) ==
    /\ ~(inertia.ixx <= 0 \/ inertia.iyy <= 0 \/ inertia.izz <= 0)
    /\ ~(\/ inertia.ixx + inertia.iyy <= inertia.izz
          \/ inertia.iyy + inertia.izz <= inertia.ixx
          \/ inertia.ixx + inertia.izz <= inertia.iyy)

\* URDFParser._parse_inertial: the mass
_parse_inertial_mass(mass, link, context, at) ==
    CASE mass.kind = "absent" -> [link |-> link, context |-> context]
      [] mass.kind = "invalid" ->
            [link |-> link,
             context |-> add_error(context, "Invalid mass value", NoName,
                                   link.name, at)]
      [] OTHER ->
            [link |-> [link EXCEPT !.mass = mass.value],
             context |-> IF mass.value < 0
                         THEN add_warning(context, "Negative mass detected",
                                          NoName, link.name, at)
                         ELSE context]

\* URDFParser._parse_inertial: the mass, then the inertia tensor of the
\* <inertial> of the link element
_parse_inertial_inertia(e, m, at) ==
    IF ~e.present THEN m
    ELSE IF \E w \in {e.ixx, e.iyy, e.izz, e.ixy, e.ixz, e.iyz} :
                w.word # "number"
    THEN [link |-> m.link,
          context |-> add_error(m.context, "Invalid inertia values",
                                NoName, m.link.name, at)]
    ELSE [link |-> [m.link EXCEPT !.inertia =
                      Inertia(e.ixx.value, e.iyy.value, e.izz.value,
                              e.ixy.value, e.ixz.value, e.iyz.value)],
          context |-> IF ~_validate_inertia(
                              Inertia(e.ixx.value, e.iyy.value, e.izz.value,
                                      e.ixy.value, e.ixz.value, e.iyz.value))
                      THEN add_warning(m.context,
                                       "Inertia tensor may be invalid",
                                       NoName, m.link.name, at)
                      ELSE m.context]

_parse_inertial(elem, link, context, at) ==
    _parse_inertial_inertia(
        elem.inertia, _parse_inertial_mass(elem.mass, link, context, at), at)

\* URDFParser._parse_geometry on a <geometry> with a shape it accepts: a
\* box with three size values, a cylinder or a sphere with the attributes
\* read by float() (0 when missing), a mesh with a filename
has_geometry(elem) ==
    /\ elem.kind = "shape"
    /\ elem.shape.type \in {"box", "cylinder", "sphere", "mesh"}
    /\ elem.shape.type = "box" => elem.shape.size.some

_parse_geometry(elem) ==
    CASE elem.shape.type = "box" -> Box(elem.shape.size.v)
      [] elem.shape.type = "cylinder" ->
            Geometry("cylinder", NoSize,
                     IF elem.shape.radius.some THEN elem.shape.radius
                     ELSE Some(Q(0, 1)),
                     IF elem.shape.length.some THEN elem.shape.length
                     ELSE Some(Q(0, 1)))
      [] elem.shape.type = "sphere" ->
            Geometry("sphere", NoSize,
                     IF elem.shape.radius.some THEN elem.shape.radius
                     ELSE Some(Q(0, 1)),
                     NoNumber)
      [] OTHER -> Geometry("mesh", NoSize, NoNumber, NoNumber)

\* URDFParser._parse_visual and _parse_collision: None with a warning for
\* an element without <geometry> or without a shape; the pose is None
\* unless there is an <origin> whose xyz and rpy parse
shape_warning(elem, kind) ==
    IF elem.geometry.kind = "missing"
    THEN IF kind = "visual" THEN "Visual element missing geometry"
         ELSE "Collision element missing geometry"
    ELSE "No valid geometry found"

_parse_visual(elem, acc, at) ==
    IF ~has_geometry(elem.geometry)
    THEN [acc EXCEPT !.context = add_warning(@, shape_warning(elem, "visual"),
                                             NoName, NoName, at)]
    ELSE [acc EXCEPT !.link.visuals =
             Append(@, Visual(NoAttr, _parse_geometry(elem.geometry),
                              elem.origin = "valid"))]

_parse_collision(elem, acc, at) ==
    IF ~has_geometry(elem.geometry)
    THEN [acc EXCEPT !.context = add_warning(@, shape_warning(elem, "collision"),
                                             NoName, NoName, at)]
    ELSE [acc EXCEPT !.link.collisions =
             Append(@, Collision(NoAttr, _parse_geometry(elem.geometry),
                                 elem.origin = "valid"))]

\* for visual_elem in elem.findall('visual'), from element i on
RECURSIVE parse_visuals(_, _, _, _)
parse_visuals(elems, i, acc, at) ==
    IF i > Len(elems) THEN acc
    ELSE parse_visuals(elems, i + 1, _parse_visual(elems[i], acc, at), at)

\* for collision_elem in elem.findall('collision'), from element i on
RECURSIVE parse_collisions(_, _, _, _)
parse_collisions(elems, i, acc, at) ==
    IF i > Len(elems) THEN acc
    ELSE parse_collisions(elems, i + 1, _parse_collision(elems[i], acc, at), at)

\* URDFParser._parse_link after the inertial (r): the loops over the
\* <visual> and the <collision> elements, and the link is returned
link_parsed(acc) == [some |-> TRUE, link |-> acc.link, context |-> acc.context]

parse_link_shapes(elem, r, at) ==
    link_parsed(
        parse_collisions(elem.collisions, 1,
            parse_visuals(elem.visuals, 1,
                          [link |-> r.link, context |-> r.context], at),
            at))

\* _parse_link returning None for a link without a numeric mass (a faulty
\* variant)
_parse_link_requires_mass(elem, context, at) ==
    IF elem.name \in {NoAttr, <<>>} \/ elem.mass.kind # "number"
    THEN [some |-> FALSE, link |-> Link(NoName, 0),
          context |-> add_error(context, "Link name is required", NoName,
                                NoName, at)]
    ELSE parse_link_shapes(elem,
                           _parse_inertial(elem, Link(sanitize_name(elem.name), 0),
                                           context, at),
                           at)

\* URDFParser._parse_link: None (some = FALSE) for a link without a name
_parse_link(elem, context, at) ==
    IF elem.name \in {NoAttr, <<>>}
    THEN [some |-> FALSE, link |-> Link(NoName, 0),
          context |-> add_error(context, "Link name is required", NoName,
                                NoName, at)]
    ELSE parse_link_shapes(elem,
                           _parse_inertial(elem, Link(sanitize_name(elem.name), 0),
                                           context, at),
                           at)

type_mapping == {"revolute", "continuous", "prismatic", "fixed", "floating",
                 "planar"}

NoWarning == "none"

\* the axis normalised without the test of its magnitude, with a zero axis
\* left as it is (a faulty variant)
_parse_joint_axis_unguarded(a) ==
    IF a.kind = "vector"
    THEN [axis |-> Vector3Over(a.value, SumSq(a.value)), warning |-> NoWarning]
    ELSE [axis |-> DefaultAxis, warning |-> NoWarning]

\* URDFParser._parse_joint, "Parse axis with normalization": the axis of the
\* joint and the warning recorded, if any.  _parse_xyz returns None for text
\* that is not three numbers, and the axis then stays the default
_parse_joint_axis(a) ==
    CASE a.kind = "vector" ->
            IF SumSq(a.value) > AxisThreshold * AxisThreshold
            THEN [axis |-> Vector3Over(a.value, SumSq(a.value)),
                  warning |-> NoWarning]
            ELSE [axis |-> DefaultAxis, warning |-> "Zero-magnitude joint axis"]
      [] a.kind = "scaled" ->
            IF SumSq(a.value.num) > 0
            THEN [axis |-> Vector3Over(a.value.num, SumSq(a.value.num)),
                  warning |-> NoWarning]
            ELSE [axis |-> DefaultAxis, warning |-> "Zero-magnitude joint axis"]
      [] OTHER -> [axis |-> DefaultAxis, warning |-> NoWarning]

\* _parse_joint without the check of the child link (a faulty variant)
_parse_joint_unchecked_child(elem, context, link_names, at) ==
    LET none(c) == [some |-> FALSE, joint |-> Joint(NoName, "none", NoName, NoName),
                    context |-> c]
        attr(e) == IF e = NoAttr THEN <<>> ELSE e
        parent_link == sanitize_name(attr(elem.parent))
        child_link == sanitize_name(attr(elem.child))
        c1 == IF parent_link \notin link_names /\ parent_link # World
              THEN add_error(context, "Parent link not found", parent_link,
                             elem.name, at)
              ELSE context
    IN  IF elem.name \in {NoAttr, <<>>}
        THEN none(add_error(context, "Joint name is required", NoName, NoName, at))
        ELSE IF elem.type \in {None, ""}
        THEN none(add_error(context, "Joint type is required", NoName,
                            elem.name, at))
        ELSE IF elem.type \notin type_mapping
        THEN none(add_error(context, "Unsupported joint type", NoName,
                            elem.name, at))
        ELSE IF elem.parent = NoElem \/ elem.child = NoElem
        THEN none(add_error(context, "Joint must have parent and child links",
                            NoName, elem.name, at))
        ELSE IF elem.axis.kind = "overflow"
        THEN none(add_error(c1, "Failed to parse joint", NoName, elem.name, at))
        ELSE LET ax == _parse_joint_axis(elem.axis)
             IN  [some |-> TRUE,
                  joint |-> [Joint(sanitize_name(elem.name), elem.type,
                                   parent_link, child_link)
                                EXCEPT !.axis = ax.axis],
                  context |-> IF ax.warning # NoWarning
                              THEN add_warning(c1, ax.warning, NoName,
                                               elem.name, at)
                              ELSE c1]

\* URDFParser._parse_joint: None (some = FALSE) for a joint without a name, a
\* supported type or both link elements; unresolved link names are recorded
\* and the joint is returned.  The OverflowError that x**2 raises for an axis
\* component beyond the range is caught by the loop of parse, which records
\* "Failed to parse joint" and goes on without the joint
_parse_joint(elem, context, link_names, at) ==
    LET none(c) == [some |-> FALSE, joint |-> Joint(NoName, "none", NoName, NoName),
                    context |-> c]
        attr(e) == IF e = NoAttr THEN <<>> ELSE e
        parent_link == sanitize_name(attr(elem.parent))
        child_link == sanitize_name(attr(elem.child))
        c1 == IF parent_link \notin link_names /\ parent_link # World
              THEN add_error(context, "Parent link not found", parent_link,
                             elem.name, at)
              ELSE context
        c2 == IF child_link \notin link_names
              THEN add_error(c1, "Child link not found", child_link,
                             elem.name, at)
              ELSE c1
    IN  IF elem.name \in {NoAttr, <<>>}
        THEN none(add_error(context, "Joint name is required", NoName, NoName, at))
        ELSE IF elem.type \in {None, ""}
        THEN none(add_error(context, "Joint type is required", NoName,
                            elem.name, at))
        ELSE IF elem.type \notin type_mapping
        THEN none(add_error(context, "Unsupported joint type", NoName,
                            elem.name, at))
        ELSE IF elem.parent = NoElem \/ elem.child = NoElem
        THEN none(add_error(context, "Joint must have parent and child links",
                            NoName, elem.name, at))
        ELSE IF elem.axis.kind = "overflow"
        THEN none(add_error(c2, "Failed to parse joint", NoName, elem.name, at))
        ELSE LET ax == _parse_joint_axis(elem.axis)
             IN  [some |-> TRUE,
                  joint |-> [Joint(sanitize_name(elem.name), elem.type,
                                   parent_link, child_link)
                                EXCEPT !.axis = ax.axis],
                  context |-> IF ax.warning # NoWarning
                              THEN add_warning(c2, ax.warning, NoName,
                                               elem.name, at)
                              ELSE c2]

CycleError == "Circular dependency detected in kinematic tree"

\* has_cycle(node, visited, rec_stack) of _validate_kinematic_tree: the walk
\* from node along parent_child_map; visited is shared between the walks
RECURSIVE has_cycle(_, _, _, _)
has_cycle(parent_child_map, node, visited, rec_stack) ==
    LET v == visited \cup {node}
        st == rec_stack \cup {node}
    IN  IF node \in DOMAIN parent_child_map
        THEN LET neighbor == parent_child_map[node]
             IN  IF neighbor # World
                 THEN IF neighbor \notin v
                      THEN has_cycle(parent_child_map, neighbor, v, st)
                      ELSE [found |-> neighbor \in st, visited |-> v]
                 ELSE [found |-> FALSE, visited |-> v]
        ELSE [found |-> FALSE, visited |-> v]

\* the loop over link_names, in the order the set iterates
RECURSIVE cycle_scan(_, _, _)
cycle_scan(parent_child_map, order, visited) ==
    IF order = <<>> THEN FALSE
    ELSE IF Head(order) \in visited
    THEN cycle_scan(parent_child_map, Tail(order), visited)
    ELSE LET r == has_cycle(parent_child_map, Head(order), visited, {})
         IN  r.found \/ cycle_scan(parent_child_map, Tail(order), r.visited)

\* URDFParser._validate_kinematic_tree; parent_child_map is the dict
\* {joint.child_link: joint.parent_link}, in which a later joint with the
\* same child replaces the earlier one
_validate_kinematic_tree(links, joints, context, order) ==
    LET link_names == {links[i].name : i \in 1..Len(links)}
        children == {joints[i].child_link : i \in 1..Len(joints)}
        last(c) == CHOOSE i \in 1..Len(joints) :
                      /\ joints[i].child_link = c
                      /\ \A k \in (i + 1)..Len(joints) : joints[k].child_link # c
        parent_child_map == [c \in children |-> joints[last(c)].parent_link]
        c1 == IF cycle_scan(parent_child_map, order, {})
              THEN add_error(context, CycleError, NoName, NoName,
                             At("robot", <<>>))
              ELSE context
        connected_links == {World}
                           \cup {joints[i].parent_link : i \in 1..Len(joints)}
                           \cup children
        orphaned == link_names \ connected_links
    IN  IF orphaned # {}
        THEN add_warning(c1, "Orphaned links detected", NoName, NoName,
                         At("robot", <<>>))
        ELSE c1

\* the frame of a parse: the document, the ParseContext, the links and joints
\* built so far and the document elements they came from (kept)
NoParse == [status |-> "none", parser |-> "none", stage |-> "none",
            doc |-> NoDoc, context |-> ParseContext, metadata |-> NoName,
            links |-> <<>>, joints |-> <<>>, kept |-> {},
            schema |-> EmptySchema, error |-> NoError]

\* the frame of an export: the exporter, the schema it was given and the
\* document it wrote
NoExport == [status |-> "none", exporter |-> "none", schema |-> EmptySchema,
             file |-> NoDoc, error |-> NoError]

\* what an export does: it writes the file, or raises and writes nothing
Wrote(file) == [raised |-> FALSE, error |-> NoError, file |-> file]
Failed(type, msg) == [raised |-> TRUE, error |-> Raise(type, msg), file |-> NoDoc]

\* the frame of exporter.export(schema, path) once it has returned or raised
Exported(exporter, schema, r) ==
    [status |-> IF r.raised THEN "raised" ELSE "written", exporter |-> exporter,
     schema |-> schema, file |-> r.file, error |-> r.error]

\* the frame of a can_parse call: the parser, the file and the answer
NoSniff == [status |-> "none", parser |-> "none", file |-> NoName,
            yaml_available |-> TRUE, answer |-> FALSE, error |-> "none"]

\* schema.extensions['parse_context'] = {...} with the given keys
parse_context(schema, context, keys) ==
    [schema EXCEPT !.extensions = [attached |-> TRUE,
                                   warnings |-> context.warnings,
                                   errors |-> context.errors,
                                   materials |-> context.materials,
                                   meshes |-> context.meshes,
                                   keys |-> keys]]

UnnamedRobot == Unnamed \o <<"_", "r", "o", "b", "o", "t">>

\* URDFParser._parse_material for the <material> children of <robot>, from
\* element i on: one without a name is skipped with a warning, the others
\* are stored in context.materials under their sanitised name
RECURSIVE parse_global_materials(_, _, _)
parse_global_materials(names, i, context) ==
    IF i > Len(names) THEN context
    ELSE parse_global_materials(names, i + 1,
            IF names[i] \in {NoAttr, <<>>}
            THEN add_warning(context, "Material missing name attribute",
                             NoName, NoName, At("material", <<i>>))
            ELSE IF sanitize_name(names[i]) = <<>> THEN context
            ELSE [context EXCEPT !.materials = @ \cup {sanitize_name(names[i])}])

\* URDFParser.parse up to the loops over links and joints, with `context'
\* the ParseContext the call has created: the robot name, the metadata,
\* the global materials
urdf_enter(doc, context) ==
    [NoParse EXCEPT
       !.status = "running", !.parser = "urdf",
       !.stage = "elements", !.doc = doc,
       !.context = parse_global_materials(
                       doc.materials, 1,
                       IF doc.name = <<>>
                       THEN add_error(context, "Robot name is required",
                                      NoName, NoName, At("robot", <<>>))
                       ELSE context),
       !.metadata = sanitize_name(IF doc.name = NoAttr
                                  THEN <<"r", "o", "b", "o", "t">>
                                  ELSE IF doc.name = <<>> THEN UnnamedRobot
                                  ELSE doc.name)]

\* ET.parse(file_path) raising ET.ParseError: raise ParseError
parse_raised(parser, doc) ==
    [NoParse EXCEPT !.status = "raised", !.parser = parser, !.doc = doc,
                    !.error = Raise("ParseError", "XML parsing error")]

\* URDFParser.parse up to the loops: ET.parse, the ParseContext, the metadata
URDFParser_parse(doc) ==
    /\ pp' = IF ~doc.wellformed THEN parse_raised("urdf", doc)
             ELSE urdf_enter(doc, ParseContext)
    /\ UNCHANGED <<engineVars, ex, cp, frames, heap>>

\* for link_elem in root.findall('link'), from element i on
RECURSIVE parse_links(_, _, _)
parse_links(elems, i, acc) ==
    IF i > Len(elems) THEN acc
    ELSE LET r == _parse_link(elems[i], acc.context, At("link", <<i>>))
         IN  parse_links(elems, i + 1,
                [links |-> IF r.some THEN Append(acc.links, r.link) ELSE acc.links,
                 kept |-> IF r.some THEN acc.kept \cup {At("link", <<i>>)}
                          ELSE acc.kept,
                 context |-> r.context])

\* for joint_elem in root.findall('joint'), from element i on
RECURSIVE parse_joints(_, _, _, _)
parse_joints(elems, link_names, i, acc) ==
    IF i > Len(elems) THEN acc
    ELSE LET r == _parse_joint(elems[i], acc.context, link_names,
                               At("joint", <<i>>))
         IN  parse_joints(elems, link_names, i + 1,
                [joints |-> IF r.some THEN Append(acc.joints, r.joint)
                            ELSE acc.joints,
                 kept |-> IF r.some THEN acc.kept \cup {At("joint", <<i>>)}
                          ELSE acc.kept,
                 context |-> r.context])

\* the frame after the loops over the link and joint elements
urdf_elements(f) ==
    LET ls == parse_links(f.doc.links, 1,
                          [links |-> <<>>, kept |-> {}, context |-> f.context])
        link_names == {ls.links[i].name : i \in 1..Len(ls.links)}
        js == parse_joints(f.doc.joints, link_names, 1,
                           [joints |-> <<>>, kept |-> ls.kept,
                            context |-> ls.context])
    IN  [f EXCEPT !.stage = "tree", !.links = ls.links,
                  !.joints = js.joints, !.kept = js.kept,
                  !.context = js.context]

\* URDFParser.parse: the two loops over the link and joint elements
urdf_parse_elements ==
    /\ pp.status = "running" /\ pp.parser = "urdf" /\ pp.stage = "elements"
    /\ pp' = urdf_elements(pp)
    /\ UNCHANGED <<engineVars, ex, cp, frames, heap>>

\* the frame after self._validate_kinematic_tree(links, joints, context)
\* when the set link_names iterates in the given order
urdf_tree(f, order) ==
    [f EXCEPT !.stage = "return",
              !.context = _validate_kinematic_tree(f.links, f.joints,
                                                   f.context, order)]

\* self._validate_kinematic_tree(links, joints, context); the set link_names
\* iterates in an order the hash seed decides
urdf_validate_tree ==
    /\ pp.status = "running" /\ pp.parser = "urdf" /\ pp.stage = "tree"
    /\ \E order \in Perms({pp.links[i].name : i \in 1..Len(pp.links)}) :
          pp' = urdf_tree(pp, order)
    /\ UNCHANGED <<engineVars, ex, cp, frames, heap>>

\* the frame once parse has built the schema and its parse_context extension
urdf_schema(f) ==
    [f EXCEPT !.status = "returned", !.stage = "done",
              !.schema = parse_context(
                  CommonSchema(f.metadata, f.links, f.joints, <<>>, <<>>),
                  f.context, {"warnings", "errors", "materials"})]

\* URDFParser.parse: the schema, its parse_context extension, return
urdf_return ==
    /\ pp.status = "running" /\ pp.parser = "urdf" /\ pp.stage = "return"
    /\ pp' = urdf_schema(pp)
    /\ UNCHANGED <<engineVars, ex, cp, frames, heap>>

(***************************************************************************)
(* parsers.py: MJCFParser.                                                 *)
(***************************************************************************)
\* MJCFParser._parse_mjcf_inertial: the mass
_parse_mjcf_inertial_mass(mass, link, context, at) ==
    CASE mass.kind = "absent" -> [link |-> link, context |-> context]
      [] mass.kind = "invalid" ->
            [link |-> link,
             context |-> add_error(context, "Invalid mass value for link",
                                   link.name, NoName, at)]
      [] OTHER ->
            [link |-> [link EXCEPT !.mass = mass.value],
             context |-> IF mass.value < 0
                         THEN add_warning(context, "Negative mass for link",
                                          link.name, NoName, at)
                         ELSE context]

\* MJCFParser._parse_mjcf_inertial: the mass, the diagonal inertia (the
\* off-diagonal terms are zero), then the full inertia if there is one
_parse_mjcf_diaginertia(attr, diag, m, at) ==
    IF ~attr.present \/ attr.words = <<>> THEN m
    ELSE IF ~diag.ok
    THEN [link |-> m.link,
          context |-> add_error(m.context, "Invalid inertia values for link",
                                m.link.name, NoName, at)]
    ELSE IF Len(diag.values) = 3
    THEN [link |-> [m.link EXCEPT !.inertia =
                      Inertia(diag.values[1], diag.values[2], diag.values[3],
                              0, 0, 0)],
          context |-> m.context]
    ELSE m

_parse_mjcf_fullinertia(attr, full, d, at) ==
    IF ~attr.present \/ attr.words = <<>> THEN d
    ELSE IF ~full.ok
    THEN [link |-> d.link,
          context |-> add_error(d.context,
                                "Invalid full inertia values for link",
                                d.link.name, NoName, at)]
    ELSE IF Len(full.values) = 6
    THEN [link |-> [d.link EXCEPT !.inertia =
                      Inertia(full.values[1], full.values[2], full.values[3],
                              full.values[4], full.values[5], full.values[6])],
          context |-> d.context]
    ELSE d

_parse_mjcf_inertial(inertial_elem, link, context, at) ==
    _parse_mjcf_fullinertia(
        inertial_elem.fullinertia, floats(inertial_elem.fullinertia),
        _parse_mjcf_diaginertia(
            inertial_elem.diaginertia, floats(inertial_elem.diaginertia),
            _parse_mjcf_inertial_mass(inertial_elem.mass, link, context, at),
            at),
        at)

\* the name f'{link.name}_visual_{n}' or f'{link.name}_collision_{n}'
GeomName(link_name, kind, n) == [link |-> link_name, kind |-> kind, index |-> n]

\* the Geometry MJCFParser._parse_mjcf_geometry builds from the type and the
\* size values: box sizes are half-extents and the lengths of cylinders and
\* capsules half-lengths, both doubled; None for any other case (the model
\* has no mesh assets)
mjcf_geometry(geom_type, size_values) ==
    CASE geom_type = "sphere" /\ Len(size_values) >= 1 ->
            Some(Geometry("sphere", NoSize, Some(size_values[1]), NoNumber))
      [] geom_type = "box" /\ Len(size_values) >= 3 ->
            Some(Box(<<QDouble(size_values[1]), QDouble(size_values[2]),
                       QDouble(size_values[3])>>))
      [] geom_type \in {"cylinder", "capsule"} /\ Len(size_values) >= 2 ->
            Some(Geometry("cylinder", NoSize, Some(size_values[1]),
                          Some(QDouble(size_values[2]))))
      [] OTHER -> [some |-> FALSE, v |-> Box(NoSize.v)]

\* MJCFParser._parse_mjcf_geometry: one visual and one collision per <geom>
\* that has a usable size
add_geometry(geom_elem, link, context, at, size, geometry) ==
    IF ~geom_elem.size.present \/ geom_elem.size.words = <<>>
    THEN [link |-> link,
          context |-> add_warning(context, "Geometry missing size for link",
                                  link.name, NoName, at)]
    ELSE IF ~size.ok
    THEN [link |-> link,
          context |-> add_warning(context,
                                  "Invalid size values for geometry in link",
                                  link.name, NoName, at)]
    ELSE IF ~geometry.some THEN [link |-> link, context |-> context]
    ELSE [link |-> [link EXCEPT
                      !.visuals = Append(@,
                          Visual(GeomName(link.name, "visual", Len(link.visuals)),
                                 geometry.v, geom_elem.has_pos)),
                      !.collisions = Append(@,
                          Collision(GeomName(link.name, "collision",
                                             Len(link.collisions)),
                                    geometry.v, geom_elem.has_pos))],
          context |-> context]

_parse_mjcf_geometry(geom_elem, link, context, at) ==
    add_geometry(geom_elem, link, context, at, floats(geom_elem.size),
                 mjcf_geometry(geom_elem.type, floats(geom_elem.size).values))

\* for geom_elem in body_elem.findall('geom'), from geom i on
RECURSIVE parse_geoms(_, _, _, _)
parse_geoms(elems, i, acc, at) ==
    IF i > Len(elems) THEN acc
    ELSE parse_geoms(elems, i + 1,
                     _parse_mjcf_geometry(elems[i], acc.link, acc.context, at),
                     at)

\* the axis stored as it is written, without the division by its magnitude
\* (a faulty variant)
_parse_mjcf_joint_axis_undivided(a) ==
    CASE a.kind = "vector" ->
            IF SumSq(a.value) > AxisThreshold * AxisThreshold
            THEN [axis |-> Vector3Over(a.value, 1), warning |-> NoWarning]
            ELSE [axis |-> DefaultAxis,
                  warning |-> "Zero-magnitude joint axis for"]
      [] a.kind = "invalid" ->
            [axis |-> DefaultAxis, warning |-> "Invalid joint axis for"]
      [] OTHER -> [axis |-> DefaultAxis, warning |-> NoWarning]

\* MJCFParser._parse_mjcf_joint, "Parse joint axis with normalization": text
\* that is not numeric is a warning, numbers but not three are ignored
_parse_mjcf_joint_axis(a) ==
    CASE a.kind = "vector" ->
            IF SumSq(a.value) > AxisThreshold * AxisThreshold
            THEN [axis |-> Vector3Over(a.value, SumSq(a.value)),
                  warning |-> NoWarning]
            ELSE [axis |-> DefaultAxis,
                  warning |-> "Zero-magnitude joint axis for"]
      [] a.kind = "scaled" ->
            IF SumSq(a.value.num) > 0
            THEN [axis |-> Vector3Over(a.value.num, SumSq(a.value.num)),
                  warning |-> NoWarning]
            ELSE [axis |-> DefaultAxis,
                  warning |-> "Zero-magnitude joint axis for"]
      [] a.kind = "invalid" ->
            [axis |-> DefaultAxis, warning |-> "Invalid joint axis for"]
      [] OTHER -> [axis |-> DefaultAxis, warning |-> NoWarning]

\* MJCFParser._parse_mjcf_joint: the name defaults to <child>_joint, the type
\* to revolute
_parse_mjcf_joint(joint_elem, parent_link, child_link, context, at) ==
    LET joint_name == IF joint_elem.name \in {NoAttr, <<>>}
                      THEN child_link \o <<"_", "j", "o", "i", "n", "t">>
                      ELSE joint_elem.name
        joint_type == CASE joint_elem.type = "hinge" -> "revolute"
                        [] joint_elem.type = "slide" -> "prismatic"
                        [] joint_elem.type = "ball" -> "spherical"
                        [] joint_elem.type = "free" -> "floating"
                        [] OTHER -> "revolute"
        name == sanitize_name(joint_name)
        ax == _parse_mjcf_joint_axis(joint_elem.axis)
    IN  [raised |-> joint_elem.axis.kind = "overflow",
         joint |-> [Joint(name, joint_type, parent_link, child_link)
                       EXCEPT !.axis = ax.axis],
         context |-> IF ax.warning # NoWarning
                     THEN add_warning(context, ax.warning, name, NoName, at)
                     ELSE context]

NoBodies(raised, context) ==
    [raised |-> raised, links |-> <<>>, joints |-> <<>>, kept |-> {},
     context |-> context]

\* MJCFParser._parse_body_hierarchy and its loop over the child bodies.  A
\* body with quat but no pos reads link.pose, an attribute Link does not
\* have, and an axis component beyond the range makes x**2 raise
\* OverflowError: the exception (raised = TRUE) leaves the recursion with the
\* context as it is and without the links and joints built below the
\* top-level body
RECURSIVE _parse_body_hierarchy(_, _, _, _)
RECURSIVE parse_child_bodies(_, _, _, _, _)
RECURSIVE body_joint_and_children(_, _, _, _, _)
RECURSIVE body_children(_, _, _, _, _, _)
_parse_body_hierarchy(body_elem, parent_link, context, path) ==
    IF body_elem.name \in {NoAttr, <<>>}
    THEN NoBodies(FALSE, add_error(context, "Body missing name attribute",
                                   NoName, NoName, At("body", path)))
    ELSE IF body_elem.quat_without_pos
    THEN NoBodies(TRUE, context)
    ELSE body_joint_and_children(
            body_elem, parent_link, sanitize_name(body_elem.name), path,
            parse_geoms(body_elem.geoms, 1,
                        _parse_mjcf_inertial(
                            body_elem, Link(sanitize_name(body_elem.name), 0),
                            context, At("body", path)),
                        At("body", path)))

\* the rest of _parse_body_hierarchy, r being the link and the context after
\* the inertial and the geoms: the joint to the parent, then the children
body_joint_and_children(body_elem, parent_link, body_name, path, r) ==
    body_children(
        body_elem, parent_link, body_name, path, r,
        _parse_mjcf_joint(body_elem.joint, parent_link, body_name, r.context,
                          At("body", path)))

body_children(body_elem, parent_link, body_name, path, r, j) ==
    IF parent_link # World /\ body_elem.joint.present /\ j.raised
    THEN NoBodies(TRUE, r.context)
    ELSE parse_child_bodies(body_elem.children, body_name, path, 1,
            [raised |-> FALSE, links |-> <<r.link>>,
             joints |-> IF parent_link = World THEN <<>>
                        ELSE IF body_elem.joint.present
                        THEN <<j.joint>>
                        ELSE <<Joint(body_name \o <<"_", "f", "i", "x", "e", "d">>,
                                     "fixed", parent_link, body_name)>>,
             kept |-> {At("body", path)},
             context |-> IF parent_link # World /\ body_elem.joint.present
                         THEN j.context ELSE r.context])

parse_child_bodies(elems, body_name, path, i, acc) ==
    IF i > Len(elems) THEN acc
    ELSE LET r == _parse_body_hierarchy(elems[i], body_name, acc.context,
                                        Append(path, i))
         IN  IF r.raised THEN NoBodies(TRUE, r.context)
             ELSE parse_child_bodies(elems, body_name, path, i + 1,
                     [raised |-> FALSE, links |-> acc.links \o r.links,
                      joints |-> acc.joints \o r.joints,
                      kept |-> acc.kept \cup r.kept, context |-> r.context])

\* for body_elem in worldbody.findall('body'), from body i on: the except
\* clause records the failure of a top-level body and goes on
RECURSIVE parse_top_bodies(_, _, _)
parse_top_bodies(elems, i, acc) ==
    IF i > Len(elems) THEN acc
    ELSE LET r == _parse_body_hierarchy(elems[i], World, acc.context, <<i>>)
         IN  parse_top_bodies(elems, i + 1,
                IF r.raised
                THEN [acc EXCEPT !.context =
                         add_error(r.context, "Failed to parse body hierarchy",
                                   NoName, NoName, At("body", <<i>>))]
                ELSE [raised |-> FALSE, links |-> acc.links \o r.links,
                      joints |-> acc.joints \o r.joints,
                      kept |-> acc.kept \cup r.kept, context |-> r.context])

\* MJCFParser.parse up to the body loop: ET.parse, the ParseContext, the
\* metadata, and the return of a bare schema when <worldbody> is missing
\* MJCFParser._parse_materials for the <material> children of <asset>,
\* from element i on: one without a name is skipped with a warning, the
\* others are stored under their name as it is written
RECURSIVE _parse_materials(_, _, _)
_parse_materials(names, i, context) ==
    IF i > Len(names) THEN context
    ELSE _parse_materials(names, i + 1,
            IF names[i] \in {NoAttr, <<>>}
            THEN add_warning(context, "Material missing name attribute",
                             NoName, NoName, At("material", <<i>>))
            ELSE [context EXCEPT !.materials = @ \cup {names[i]}])

\* the frame MJCFParser.parse returns with when <worldbody> is missing: the
\* error is recorded in the context and the schema has no parse_context
mjcf_no_worldbody(doc, metadata, context) ==
    [NoParse EXCEPT
       !.status = "returned", !.parser = "mjcf", !.stage = "done",
       !.doc = doc, !.metadata = metadata,
       !.context = add_error(context, "MJCF file missing worldbody element",
                             NoName, NoName, At("robot", <<>>)),
       !.schema = CommonSchema(metadata, <<>>, <<>>, <<>>, <<>>)]

\* MJCFParser.parse up to the loop over the bodies, with `context' the
\* ParseContext the call has created: the metadata, the assets, <worldbody>
mjcf_enter(doc, context) ==
    IF ~doc.worldbody
    THEN mjcf_no_worldbody(
             doc,
             sanitize_name(IF doc.name = NoAttr
                           THEN <<"m", "u", "j", "o", "c", "o", "_",
                                  "m", "o", "d", "e", "l">>
                           ELSE doc.name),
             _parse_materials(doc.materials, 1, context))
    ELSE [NoParse EXCEPT
            !.status = "running", !.parser = "mjcf",
            !.stage = "elements", !.doc = doc,
            !.metadata = sanitize_name(IF doc.name = NoAttr
                                       THEN <<"m", "u", "j", "o", "c", "o", "_",
                                              "m", "o", "d", "e", "l">>
                                       ELSE doc.name),
            !.context = _parse_materials(doc.materials, 1, context),
            !.links = <<Link(World, 0)>>]

MJCFParser_parse(doc) ==
    /\ pp' = IF ~doc.wellformed THEN parse_raised("mjcf", doc)
             ELSE mjcf_enter(doc, ParseContext)
    /\ UNCHANGED <<engineVars, ex, cp, frames, heap>>

\* the frame after the loop over the bodies of <worldbody>
mjcf_bodies(f) ==
    LET r == parse_top_bodies(f.doc.bodies, 1,
                 [raised |-> FALSE, links |-> f.links, joints |-> <<>>,
                  kept |-> {}, context |-> f.context])
    IN  [f EXCEPT !.stage = "return", !.links = r.links,
                  !.joints = r.joints, !.kept = r.kept,
                  !.context = r.context]

\* MJCFParser.parse: the loop over the bodies of <worldbody>
mjcf_parse_bodies ==
    /\ pp.status = "running" /\ pp.parser = "mjcf" /\ pp.stage = "elements"
    /\ pp' = mjcf_bodies(pp)
    /\ UNCHANGED <<engineVars, ex, cp, frames, heap>>

\* schema.py: Actuator (name, joint; the type is always DC_MOTOR here)
Actuator(name, joint) == [name |-> name, joint |-> joint]

\* MJCFParser._parse_actuators: for motor_elem in findall('motor'), from
\* motor i on; a motor without a name or a joint is skipped with a warning
RECURSIVE _parse_actuators(_, _, _)
_parse_actuators(elems, i, acc) ==
    IF i > Len(elems) THEN acc
    ELSE _parse_actuators(elems, i + 1,
            IF elems[i].name \in {NoAttr, <<>>} \/ elems[i].joint \in {NoAttr, <<>>}
            THEN [acc EXCEPT !.context =
                     add_warning(@, "Motor missing name or joint reference",
                                 NoName, NoName, At("motor", <<i>>))]
            ELSE [acc EXCEPT !.actuators =
                     Append(@, Actuator(sanitize_name(elems[i].name),
                                        sanitize_name(elems[i].joint)))])

\* the frame once parse has read the actuators and built the schema and
\* its parse_context extension
mjcf_actuators(f, a) ==
    [f EXCEPT !.status = "returned", !.stage = "done",
              !.context = a.context,
              !.schema = parse_context(
                  CommonSchema(f.metadata, f.links, f.joints,
                               a.actuators, <<>>),
                  a.context,
                  {"warnings", "errors", "materials", "meshes"})]

mjcf_schema(f) ==
    mjcf_actuators(f, _parse_actuators(f.doc.motors, 1,
                          [actuators |-> <<>>, context |-> f.context]))

\* MJCFParser.parse after the body loop: the actuators, the schema, its
\* parse_context extension, return
mjcf_return ==
    /\ pp.status = "running" /\ pp.parser = "mjcf" /\ pp.stage = "return"
    /\ pp' = mjcf_schema(pp)
    /\ UNCHANGED <<engineVars, ex, cp, frames, heap>>

(***************************************************************************)
(* parsers.py: several parse calls in flight, as in a sequential or a      *)
(* parallel batch.  A ParseContext is an object: the heap holds the        *)
(* objects the calls have created and a frame holds the address of its     *)
(* own; the helpers of a call add to the object at that address, and the   *)
(* parse_context extension of the schema refers to its lists.              *)
(***************************************************************************)
\* one ParseContext kept for all calls (a faulty variant)
ParseContext_kept(objects) == [heap |-> IF objects = <<>> THEN <<ParseContext>> ELSE objects, ref |-> 1]

\* context = ParseContext(file_path=..., materials={}, meshes={},
\* warnings=[], errors=[]): a new object with new, empty collections
ParseContext_new(objects) ==
    [heap |-> Append(objects, ParseContext), ref |-> Len(objects) + 1]

\* the frame of call k as the code of the call sees it: `context' is the
\* object the frame refers to
Local(k) == [frames[k].local EXCEPT !.context = heap[frames[k].ref]]

\* call k has run up to frame g: what it did to its context is in the
\* object, the rest in the frame
stepped(k, g) ==
    /\ frames' = [frames EXCEPT ![k].local = [g EXCEPT !.context = ParseContext]]
    /\ heap' = [heap EXCEPT ![frames[k].ref] = g.context]

\* a new call has created its context (a.ref in a.heap) and run up to
\* frame g: its frame holds the address of the context
entered(a, g) ==
    /\ frames' = Append(frames, [ref |-> a.ref,
                                 local |-> [g EXCEPT !.context = ParseContext]])
    /\ heap' = [a.heap EXCEPT ![a.ref] = g.context]

\* parser.parse(file) up to the loops, as a new call; ET.parse raises
\* before there is a context (ref 0)
parse_enter(doc, a) ==
    IF ~doc.wellformed
    THEN /\ frames' = Append(frames, [ref |-> 0,
                                      local |-> parse_raised(doc.format, doc)])
         /\ UNCHANGED heap
    ELSE IF doc.format = "urdf"
    THEN entered(a, urdf_enter(doc, a.heap[a.ref]))
    ELSE entered(a, mjcf_enter(doc, a.heap[a.ref]))

\* the documents of a batch: URDF and MJCF files that parse without a
\* diagnostic, with warnings, with errors, with materials, and one that is
\* not XML
BatchDocs ==
    {Doc("urdf", FALSE, NoAttr, <<>>, <<>>, FALSE, <<>>),
     [Doc("urdf", TRUE, <<"r">>, <<LinkElem(nA, Mass("number", 1))>>, <<>>,
          FALSE, <<>>) EXCEPT !.materials = <<<<"r", "e", "d">>>>],
     [Doc("urdf", TRUE, <<>>,
          <<LinkElem(nA, Mass("number", 1)), LinkElem(nB, Mass("number", -1))>>,
          <<JointElem(nJ4, "revolute", nA, nCsp)>>, FALSE, <<>>)
         EXCEPT !.materials = <<NoAttr>>],
     [Doc("urdf", TRUE, <<"r">>,
          <<LinkElem(nA, Mass("number", 1)), LinkElem(NoAttr, NoMass),
            LinkElem(nB, Mass("number", 1))>>,
          <<JointElem(nJ5, "bogus", nA, nB), JointElem(nJ1, "revolute", nA, nB)>>,
          FALSE, <<>>)
         EXCEPT !.materials = <<<<"b", "l", "u", "e">>>>],
     [Doc("mjcf", TRUE, <<"m">>, <<>>, <<>>, FALSE, <<>>)
         EXCEPT !.materials = <<<<"r", "e", "d">>>>],
     [Doc("mjcf", TRUE, <<"m">>, <<>>, <<>>, TRUE, MotorBodies)
         EXCEPT !.motors = <<MotorElem(NoAttr, nJ1), MotorElem(nM1, nJ1)>>,
                !.materials = <<<<"b", "l", "u", "e">>, <<>>>>],
     Doc("mjcf", TRUE, <<"m">>, <<>>, <<>>, TRUE,
         <<BodyElem(nA, TRUE, Mass("number", 1), NoJointElem, <<>>)>>)}

\* a parse call begins
BatchParse ==
    /\ pp.status = "none" /\ ex.status = "none"
    /\ Len(frames) < MaxCalls
    /\ \E doc \in BatchDocs : parse_enter(doc, ParseContext_new(heap))
    /\ UNCHANGED <<engineVars, pp, ex, cp>>

\* the call k is at the given stage of the given parser's parse
at_stage(k, parser, stage) ==
    /\ frames[k].local.status = "running"
    /\ frames[k].local.parser = parser
    /\ frames[k].local.stage = stage

\* a call goes on: URDFParser.parse, the loops over links and joints
batch_urdf_elements ==
    /\ \E k \in 1..Len(frames) :
          /\ at_stage(k, "urdf", "elements")
          /\ stepped(k, urdf_elements(Local(k)))
    /\ UNCHANGED <<engineVars, pp, ex, cp>>

\* URDFParser.parse, _validate_kinematic_tree
batch_urdf_tree ==
    /\ \E k \in 1..Len(frames) :
          /\ at_stage(k, "urdf", "tree")
          /\ \E order \in Perms({frames[k].local.links[i].name :
                                     i \in 1..Len(frames[k].local.links)}) :
                stepped(k, urdf_tree(Local(k), order))
    /\ UNCHANGED <<engineVars, pp, ex, cp>>

\* URDFParser.parse, the schema and return
batch_urdf_return ==
    /\ \E k \in 1..Len(frames) :
          /\ at_stage(k, "urdf", "return")
          /\ stepped(k, urdf_schema(Local(k)))
    /\ UNCHANGED <<engineVars, pp, ex, cp>>

\* MJCFParser.parse, the loop over the bodies
batch_mjcf_bodies ==
    /\ \E k \in 1..Len(frames) :
          /\ at_stage(k, "mjcf", "elements")
          /\ stepped(k, mjcf_bodies(Local(k)))
    /\ UNCHANGED <<engineVars, pp, ex, cp>>

\* MJCFParser.parse, the actuators, the schema and return
batch_mjcf_return ==
    /\ \E k \in 1..Len(frames) :
          /\ at_stage(k, "mjcf", "return")
          /\ stepped(k, mjcf_schema(Local(k)))
    /\ UNCHANGED <<engineVars, pp, ex, cp>>

(***************************************************************************)
(* exporters.py: MJCFExporter.                                             *)
(***************************************************************************)
\* _add_geom writing the full extents of a box (a faulty variant)
_add_geom_full_extents(geometry, has_pose, group) ==
    GeomElem("box",
             IF geometry.size.some
             THEN Attr(<<Num(geometry.size.v[1]), Num(geometry.size.v[2]),
                         Num(geometry.size.v[3])>>)
             ELSE AbsentAttr,
             group, has_pose)

\* `if x:` on an Optional[float]: neither None nor zero
truthy(x) == x.some /\ x.v.num # 0

\* MJCFExporter._add_geom: the <geom> written for a geometry; a box is
\* written with its half-extents and a cylinder with its half-length, and
\* a type without a case of its own as a box of size 0.1
_add_geom(geometry, has_pose, group) ==
    CASE geometry.type = "box" ->
            GeomElem("box",
                     IF geometry.size.some
                     THEN Attr(<<Num(QHalf(geometry.size.v[1])),
                                 Num(QHalf(geometry.size.v[2])),
                                 Num(QHalf(geometry.size.v[3]))>>)
                     ELSE AbsentAttr,
                     group, has_pose)
      [] geometry.type = "sphere" ->
            GeomElem("sphere",
                     IF truthy(geometry.radius)
                     THEN Attr(<<Num(geometry.radius.v)>>) ELSE AbsentAttr,
                     group, has_pose)
      [] geometry.type = "cylinder" ->
            GeomElem("cylinder",
                     IF truthy(geometry.radius) /\ truthy(geometry.length)
                     THEN Attr(<<Num(geometry.radius.v),
                                 Num(QHalf(geometry.length.v))>>)
                     ELSE AbsentAttr,
                     group, has_pose)
      [] geometry.type = "mesh" -> GeomElem("mesh", AbsentAttr, group, has_pose)
      [] OTHER ->
            GeomElem("box", Attr(<<Num(Q(1, 10)), Num(Q(1, 10)), Num(Q(1, 10))>>),
                     group, has_pose)

\* the <geom> elements of a body: the visuals in group 2, then the
\* collisions in group 3
add_geoms(link) ==
    [i \in 1..Len(link.visuals) |->
        _add_geom(link.visuals[i].geometry, link.visuals[i].has_pose, "2")]
    \o [i \in 1..Len(link.collisions) |->
        _add_geom(link.collisions[i].geometry, link.collisions[i].has_pose, "3")]

\* the <inertial> of a body: written only for a link of positive mass, with
\* the mass and the diagonal of the inertia
add_inertial(body, link) ==
    IF link.mass > 0
    THEN [body EXCEPT !.mass = Mass("number", link.mass),
                      !.diaginertia = Attr(<<Num(link.inertia.ixx),
                                             Num(link.inertia.iyy),
                                             Num(link.inertia.izz)>>)]
    ELSE body

\* link_to_children[name]: the (joint, child) pairs of the joints whose
\* parent_link is name, in the order of schema.joints
link_to_children(schema, name) ==
    LET IsChildOf(j) == j.parent_link = name
    IN  SelectSeq(schema.joints, IsChildOf)

\* next((l for l in schema.links if l.name == child_link_name), None)
find_link(schema, name) ==
    LET i == CHOOSE k \in 1..Len(schema.links) :
                /\ schema.links[k].name = name
                /\ \A n \in 1..(k - 1) : schema.links[n].name # name
    IN  schema.links[i]

\* the <joint> of a child body: none for a fixed joint; the name and the
\* axis, and no type attribute
add_joint_elem(joint) ==
    IF joint.type # "fixed"
    THEN [present |-> TRUE, name |-> joint.name, type |-> None,
          axis |-> AxisAttr("scaled", joint.axis)]
    ELSE NoJointElem

\* sys.getrecursionlimit(): the depth of nested calls at which the
\* interpreter raises RecursionError (1000 in CPython), scaled down to a
\* depth no tree of the model's schemas comes near
RecursionLimit == 8

\* the (joint, child) pairs of link_to_children[name] whose child is a link
\* of the schema: `if child_link:`
children_found(schema, name) ==
    SelectSeq(link_to_children(schema, name),
              LAMBDA j : get_link(schema, j.child_link))

\* the <body> of a link before its child bodies: the joint, the inertial
\* and the geoms
own_body(link, joint_elem) ==
    add_inertial([BodyElem(link.name, FALSE, NoMass, joint_elem, <<>>)
                     EXCEPT !.geoms = add_geoms(link)], link)

\* MJCFExporter._add_body_with_joint, and with joint = NoJointElem
\* MJCFExporter._add_body_hierarchy: the <body> of a link and, recursively,
\* the bodies of its children.  Nothing keeps track of the links already
\* emitted: the recursion follows the joints for as long as they lead to a
\* link, and beyond the interpreter's limit the call raises RecursionError
\* (raised = TRUE)
RECURSIVE _add_body(_, _, _, _)
RECURSIVE add_child_bodies(_, _, _, _, _)
RECURSIVE child_body_added(_, _, _, _, _, _)
_add_body(schema, link, joint_elem, depth) ==
    IF depth > RecursionLimit
    THEN [raised |-> TRUE, body |-> own_body(link, joint_elem)]
    ELSE add_child_bodies(schema, own_body(link, joint_elem),
                          children_found(schema, link.name), 1, depth)

\* for joint, child_link_name in link_to_children[link.name], from pair i on
add_child_bodies(schema, body, found, i, depth) ==
    IF i > Len(found) THEN [raised |-> FALSE, body |-> body]
    ELSE child_body_added(
            schema, body, found, i, depth,
            _add_body(schema, find_link(schema, found[i].child_link),
                      add_joint_elem(found[i]), depth + 1))

child_body_added(schema, body, found, i, depth, r) ==
    IF r.raised THEN [raised |-> TRUE, body |-> body]
    ELSE add_child_bodies(schema, [body EXCEPT !.children = Append(@, r.body)],
                          found, i + 1, depth)

\* for root_link in root_links: if root_link.name != 'world':
\* self._add_body_hierarchy(worldbody, root_link, ...), from root i on
RECURSIVE add_root_bodies(_, _, _, _)
RECURSIVE root_body_added(_, _, _, _, _)
add_root_bodies(schema, root_links, i, bodies) ==
    IF i > Len(root_links) THEN [raised |-> FALSE, bodies |-> bodies]
    ELSE IF root_links[i].name = World
    THEN add_root_bodies(schema, root_links, i + 1, bodies)
    ELSE root_body_added(schema, root_links, i, bodies,
                         _add_body(schema, root_links[i], NoJointElem, 1))

root_body_added(schema, root_links, i, bodies, r) ==
    IF r.raised THEN [raised |-> TRUE, bodies |-> bodies]
    ELSE add_root_bodies(schema, root_links, i + 1, Append(bodies, r.body))

\* the root links of MJCFExporter.export: the links that are no joint's
\* child and are not named 'world'; the first link when there is none
mjcf_root_links(schema) ==
    LET child_links == {schema.joints[i].child_link : i \in 1..Len(schema.joints)}
        IsRoot(l) == l.name \notin child_links /\ l.name # World
        roots == SelectSeq(schema.links, IsRoot)
    IN  IF roots = <<>> /\ schema.links # <<>>
        THEN <<schema.links[1]>> ELSE roots

\* MJCFExporter.export: the bodies of <worldbody>, the actuators (the tag
\* of an actuator's element is its ActuatorType, an Enum member that
\* ET.tostring cannot serialize: TypeError), then the file is written
\* `visual.material and visual.material.name': the material is not None
\* and its name is neither None nor empty
named_material(visual) ==
    /\ visual.material.present
    /\ visual.material.name \notin {NoAttr, <<>>}

\* the visuals of the links, in the order of the two nested loops
link_visuals(schema) ==
    ConcatAll([i \in 1..Len(schema.links) |-> schema.links[i].visuals])

\* MJCFExporter.export, "Collect all materials used": materials_used
materials_used(schema) ==
    {v.material.name : v \in {w \in Range(link_visuals(schema)) : named_material(w)}}

\* the second loop without materials_used.remove
RECURSIVE add_materials_keeping(_, _, _, _)
add_materials_keeping(visuals, i, used, asset) ==
    IF i > Len(visuals) THEN asset
    ELSE IF visuals[i].material.present /\ visuals[i].material.name \in used
    THEN add_materials_keeping(visuals, i + 1, used,
                               Append(asset, visuals[i].material.name))
    ELSE add_materials_keeping(visuals, i + 1, used, asset)

\* MJCFExporter.export, "Add materials to asset section": _add_material
\* for a visual whose material name is still in materials_used, and the
\* name is removed from the set
RECURSIVE add_materials(_, _, _, _)
add_materials(visuals, i, used, asset) ==
    IF i > Len(visuals) THEN asset
    ELSE IF visuals[i].material.present /\ visuals[i].material.name \in used
    THEN add_materials(visuals, i + 1, used \ {visuals[i].material.name},
                       Append(asset, visuals[i].material.name))
    ELSE add_materials(visuals, i + 1, used, asset)

\* the <asset> section: the names of its <material> children
mjcf_asset(schema) ==
    add_materials(link_visuals(schema), 1, materials_used(schema), <<>>)

mjcf_written(schema, r) ==
    IF r.raised
    THEN Failed("RecursionError", "maximum recursion depth exceeded")
    ELSE IF schema.actuators # <<>>
    THEN Failed("TypeError", "cannot serialize ActuatorType")
    ELSE Wrote([Doc("mjcf", TRUE, schema.name, <<>>, <<>>, TRUE, r.bodies)
                   EXCEPT !.materials = mjcf_asset(schema)])

MJCFExporter_export(schema) ==
    mjcf_written(schema, add_root_bodies(schema, mjcf_root_links(schema), 1, <<>>))

(***************************************************************************)
(* The engine's specification: a ConversionEngine as constructed (empty     *)
(* registries), then any sequence of registrations, conversions and batch   *)
(* conversions.                                                             *)
(***************************************************************************)
Init ==
    /\ parsers = {} /\ exporters = {}
    /\ call = NoCall /\ trace = <<>> /\ written = {} /\ batch = NoBatch
    /\ pp = NoParse
    /\ ex = NoExport /\ cp = NoSniff
    /\ frames = <<>> /\ heap = <<>>

RegisterParser == \E f \in ParserArgs : register_parser(f)
RegisterExporter == \E f \in RegisterArgs : register_exporter(f)
\* A top-level operation resets call, trace, written and batch, so what it
\* does depends only on the registered parsers and exporters: a conversion
\* is started from the states a registration leaves, and a registration
\* may follow any finished operation.
Convert ==
    /\ call = NoCall /\ batch = NoBatch
    /\ \E input \in {F_r1, F_m, F_txt, F_gone, F_x, F_k},
          source_arg \in FormatArgs \cup {None},
          target_arg \in FormatArgs \cup {None}, validation \in BOOLEAN :
          \* the files outside the input directory are there for the detection
          \* of the format: they are converted with source_format omitted
          /\ input \in OtherFiles => source_arg = None
          /\ convert(input, OutPath, source_arg, target_arg, validation)
BatchConvert ==
    /\ call = NoCall /\ batch = NoBatch
    /\ \E source_format \in {"urdf", "xml", "sdf"}, target_format \in FormatArgs,
          pattern \in Patterns :
          batch_convert(source_format, target_format, pattern)

Next ==
    \/ RegisterParser
    \/ RegisterExporter
    \/ Convert
    \/ convert_parse
    \/ convert_validate
    \/ convert_export
    \/ BatchConvert
    \/ batch_iter
    \/ batch_collect
    \/ batch_return

Spec == Init /\ [][Next]_vars

(***************************************************************************)
(* The parsers' specification: one parse of any of the documents.          *)
(***************************************************************************)
URDFParse ==
    /\ pp.status = "none"
    /\ \E doc \in URDFDocs : URDFParser_parse(doc)

MJCFParse ==
    /\ pp.status = "none"
    /\ \E doc \in MJCFDocs : MJCFParser_parse(doc)

(***************************************************************************)
(* The parsers on the documents with a joint axis.                         *)
(***************************************************************************)
URDFParseAxis ==
    /\ pp.status = "none"
    /\ \E doc \in URDFAxisDocs : URDFParser_parse(doc)

MJCFParseAxis ==
    /\ pp.status = "none"
    /\ \E doc \in MJCFAxisDocs : MJCFParser_parse(doc)

NextAxis ==
    \/ URDFParseAxis
    \/ urdf_parse_elements
    \/ urdf_validate_tree
    \/ urdf_return
    \/ MJCFParseAxis
    \/ mjcf_parse_bodies
    \/ mjcf_return

SpecAxis == Init /\ [][NextAxis]_vars

(***************************************************************************)
(* exporters.py: URDFExporter.  The written file keeps, besides its links   *)
(* and joints, the tags of the root's children in the order they were      *)
(* appended (elements).                                                    *)
(***************************************************************************)
\* URDFExporter._add_geometry: <geometry> with the shape; a box without a
\* size and a type without a case of its own leave <geometry> empty, and a
\* radius or length that is None or zero is written as 1.0
_add_geometry(geometry) ==
    CASE geometry.type = "box" ->
            IF geometry.size.some THEN GeometryElem("shape", geometry)
            ELSE GeometryElem("invalid", Box(NoSize.v))
      [] geometry.type = "cylinder" ->
            GeometryElem("shape",
                Geometry("cylinder", NoSize,
                         IF truthy(geometry.radius) THEN geometry.radius
                         ELSE Some(Q(1, 1)),
                         IF truthy(geometry.length) THEN geometry.length
                         ELSE Some(Q(1, 1))))
      [] geometry.type = "sphere" ->
            GeometryElem("shape",
                Geometry("sphere", NoSize,
                         IF truthy(geometry.radius) THEN geometry.radius
                         ELSE Some(Q(1, 1)),
                         NoNumber))
      [] geometry.type = "mesh" -> GeometryElem("shape", geometry)
      [] OTHER -> GeometryElem("invalid", Box(NoSize.v))

\* URDFExporter._add_visual and _add_collision: <origin> from
\* pose.position, then the geometry
_add_visual(visual) == ShapeElem(_add_geometry(visual.geometry), "valid")
_add_collision(collision) == ShapeElem(_add_geometry(collision.geometry), "valid")

\* pos = visual.pose.position (collision.pose.position) on an item whose
\* pose is None raises AttributeError
pose_missing(link) ==
    \/ \E i \in 1..Len(link.visuals) : ~link.visuals[i].has_pose
    \/ \E i \in 1..Len(link.collisions) : ~link.collisions[i].has_pose

\* URDFExporter._add_link: <link name=...>, with <inertial> (mass and the
\* six inertia attributes, each str() of the float) when the mass is
\* positive or a diagonal term is not zero
add_link_inertial(link) ==
    IF link.mass > 0
       \/ link.inertia.ixx # 0 \/ link.inertia.iyy # 0 \/ link.inertia.izz # 0
    THEN [LinkElem(link.name, Mass("number", link.mass)) EXCEPT !.inertia =
            InertiaElem(Num(link.inertia.ixx), Num(link.inertia.iyy),
                        Num(link.inertia.izz), Num(link.inertia.ixy),
                        Num(link.inertia.ixz), Num(link.inertia.iyz))]
    ELSE LinkElem(link.name, NoMass)

\* then the <visual> and the <collision> elements
_add_link(link) ==
    [add_link_inertial(link) EXCEPT
        !.visuals = [i \in 1..Len(link.visuals) |-> _add_visual(link.visuals[i])],
        !.collisions = [i \in 1..Len(link.collisions) |->
                          _add_collision(link.collisions[i])]]

\* _add_joint writing the schema's joint type as it is (a faulty variant)
_add_joint_type_as_is(joint) ==
    [JointElem(joint.name, joint.type, joint.parent_link, joint.child_link)
        EXCEPT !.axis = AxisAttr("scaled", joint.axis)]

\* URDFExporter._add_joint: type_mapping.get(joint.type, 'fixed'), the
\* parent and child, and the axis
_add_joint(joint) ==
    [JointElem(joint.name,
               IF joint.type \in {"revolute", "continuous", "prismatic",
                                  "fixed", "floating", "planar"}
               THEN joint.type ELSE "fixed",
               joint.parent_link, joint.child_link)
        EXCEPT !.axis = AxisAttr("scaled", joint.axis)]

\* URDFExporter.export: the loop over schema.links, the loop over
\* schema.joints, then the file is written
URDFExporter_export(schema) ==
    IF \E i \in 1..Len(schema.links) : pose_missing(schema.links[i])
    THEN Failed("AttributeError", "'NoneType' object has no attribute 'position'")
    ELSE Wrote([Doc("urdf", TRUE, schema.name,
                    [i \in 1..Len(schema.links) |-> _add_link(schema.links[i])],
                    [i \in 1..Len(schema.joints) |-> _add_joint(schema.joints[i])],
                    FALSE, <<>>)
                  EXCEPT !.elements =
                      [i \in 1..Len(schema.links) |-> "link"]
                      \o [i \in 1..Len(schema.joints) |-> "joint"]])

(***************************************************************************)
(* exporters.py: SchemaExporter, and parsers.py: SchemaParser.  The file   *)
(* is the dumped dictionary: names as they are, numbers as their text.     *)
(***************************************************************************)
\* SchemaExporter._schema_to_dict: the metadata, the links and the joints;
\* 'actuators', 'sensors' and 'contacts' stay the empty lists
_schema_to_dict(schema) ==
    [format |-> "schema",
     metadata |-> [name |-> schema.name],
     links |-> [i \in 1..Len(schema.links) |->
                  LET link == schema.links[i]
                  IN  [name |-> link.name, mass |-> Num(link.mass),
                       inertia |-> [ixx |-> Num(link.inertia.ixx),
                                    iyy |-> Num(link.inertia.iyy),
                                    izz |-> Num(link.inertia.izz),
                                    ixy |-> Num(link.inertia.ixy),
                                    ixz |-> Num(link.inertia.ixz),
                                    iyz |-> Num(link.inertia.iyz)]]],
     joints |-> [i \in 1..Len(schema.joints) |->
                   LET joint == schema.joints[i]
                   IN  [name |-> joint.name, type |-> joint.type,
                        parent_link |-> joint.parent_link,
                        child_link |-> joint.child_link,
                        axis |-> Num(joint.axis)]],
     actuators |-> <<>>, sensors |-> <<>>, contacts |-> <<>>]

\* SchemaExporter.export: json.dump or yaml.dump of the dictionary
SchemaExporter_export(schema) == _schema_to_dict(schema)

\* SchemaParser._dict_to_schema: the name is metadata_data.get('name',
\* 'robot'), taken as it is; a joint type outside its type_mapping becomes
\* fixed; visuals and collisions are not read
_dict_to_schema(data) ==
    CommonSchema(
        IF data.metadata.name = NoAttr THEN <<"r", "o", "b", "o", "t">>
        ELSE data.metadata.name,
        [i \in 1..Len(data.links) |->
            LET link_data == data.links[i]
            IN  [Link(link_data.name, link_data.mass.value) EXCEPT !.inertia =
                    Inertia(link_data.inertia.ixx.value,
                            link_data.inertia.iyy.value,
                            link_data.inertia.izz.value,
                            link_data.inertia.ixy.value,
                            link_data.inertia.ixz.value,
                            link_data.inertia.iyz.value)]],
        [i \in 1..Len(data.joints) |->
            LET joint_data == data.joints[i]
            IN  [Joint(joint_data.name,
                       IF joint_data.type \in {"revolute", "continuous",
                                               "prismatic", "fixed",
                                               "floating", "planar"}
                       THEN joint_data.type ELSE "fixed",
                       joint_data.parent_link, joint_data.child_link)
                    EXCEPT !.axis = joint_data.axis.value]],
        [i \in 1..Len(data.actuators) |->
            [name |-> data.actuators[i].name, joint |-> data.actuators[i].joint]],
        [i \in 1..Len(data.sensors) |->
            [name |-> data.sensors[i].name,
             parent_link |-> data.sensors[i].parent_link]])

\* SchemaParser.parse: load the file, _dict_to_schema
SchemaParser_parse(data) ==
    /\ pp' = [NoParse EXCEPT !.status = "returned", !.parser = "schema",
                             !.stage = "done",
                             !.metadata = _dict_to_schema(data).name,
                             !.schema = _dict_to_schema(data)]
    /\ UNCHANGED <<engineVars, ex, cp, frames, heap>>

(***************************************************************************)
(* The parsers' specification, continued: the schema files and the next-   *)
(* state relation of the three parsers.                                    *)
(***************************************************************************)
\* the schema files: the dictionary of a robot without links or with one
\* link, under each of the declared names
SchemaFiles ==
    {[_schema_to_dict(CommonSchema(<<"r">>, links, <<>>, <<>>, <<>>))
        EXCEPT !.metadata = [name |-> name]] :
        name \in DeclaredNames \cup {<<"r">>},
        links \in {<<>>, <<Link(nA, 1)>>}}

SchemaParse ==
    /\ pp.status = "none"
    /\ \E data \in SchemaFiles : SchemaParser_parse(data)

NextParse ==
    \/ SchemaParse
    \/ URDFParse
    \/ urdf_parse_elements
    \/ urdf_validate_tree
    \/ urdf_return
    \/ MJCFParse
    \/ mjcf_parse_bodies
    \/ mjcf_return

SpecParse == Init /\ [][NextParse]_vars

(***************************************************************************)
(* parsers.py: can_parse.  A file is its suffix, whether it exists, and    *)
(* what the decoders make of its text: for ET.parse whether it is          *)
(* well-formed, its root tag and the number of <link> children of the      *)
(* root; for json.load and yaml.safe_load whether they decode it, and      *)
(* whether the decoded document is a mapping with the key 'metadata'.      *)
(***************************************************************************)
Text(wellformed, root, n_links, json, yaml, metadata) ==
    [wellformed |-> wellformed, root |-> root, n_links |-> n_links,
     json |-> json, yaml |-> yaml, metadata |-> metadata]

File(suffix_, exists_, text) == [suffix |-> suffix_, exists |-> exists_, text |-> text]

NotXML(json, yaml, metadata) == Text(FALSE, "none", 0, json, yaml, metadata)

\* XML text is never JSON; whether the YAML loader takes it as a scalar
\* depends on the text.  What JSON decodes, YAML decodes.
Texts ==
    {Text(TRUE, root, n, FALSE, yaml, FALSE) :
        root \in {"robot", "mujoco", "sdf"}, n \in 0..MaxDocLinks,
        yaml \in BOOLEAN}
    \cup {NotXML(TRUE, TRUE, TRUE), NotXML(TRUE, TRUE, FALSE),
          NotXML(FALSE, TRUE, TRUE), NotXML(FALSE, TRUE, FALSE),
          NotXML(FALSE, FALSE, FALSE)}

Suffixes == {"urdf", "xml", "mjcf", "json", "yaml", "yml", "txt", ""}

SniffFiles ==
    {File(x, TRUE, text) : x \in Suffixes, text \in Texts}
    \cup {File(x, FALSE, NotXML(FALSE, FALSE, FALSE)) : x \in Suffixes}

\* what a can_parse call came to: the bool it returned
Returned(answer) == [status |-> "returned", answer |-> answer, error |-> "none"]

\* ET.parse(file_path): the exception it raises, "none" when it returns
ET_parse(file) ==
    IF ~file.exists THEN "FileNotFoundError"
    ELSE IF ~file.text.wellformed THEN "ParseError"
    ELSE "none"

\* open(path) then json.load(f) or yaml.safe_load(f)
load(file, decoder) ==
    IF ~file.exists THEN "FileNotFoundError"
    ELSE IF decoder = "json" /\ ~file.text.json THEN "JSONDecodeError"
    ELSE IF decoder = "yaml" /\ ~file.text.yaml THEN "YAMLError"
    ELSE "none"

\* URDFParser.can_parse: ParseError and every other Exception are caught
\* and answered False; the root must be 'robot' and have a <link> child
URDFParser_can_parse(file) ==
    LET e == ET_parse(file)
    IN  IF e = "ParseError" THEN Returned(FALSE)
        ELSE IF e # "none" THEN Returned(FALSE)
        ELSE IF file.text.root # "robot" THEN Returned(FALSE)
        ELSE IF file.text.n_links = 0 THEN Returned(FALSE)
        ELSE Returned(TRUE)

\* MJCFParser.can_parse: root.tag == 'mujoco', False on any Exception
MJCFParser_can_parse(file) ==
    IF ET_parse(file) # "none" THEN Returned(FALSE)
    ELSE Returned(file.text.root = "mujoco")

\* SchemaParser.can_parse: by the suffix, decode the file and answer True;
\* False without the yaml module, on any Exception and for other suffixes
SchemaParser_can_parse(file, yaml_available) ==
    IF lower(file.suffix) \in {"yaml", "yml"}
    THEN IF ~yaml_available THEN Returned(FALSE)
         ELSE Returned(load(file, "yaml") = "none")
    ELSE IF lower(file.suffix) = "json"
    THEN Returned(load(file, "json") = "none")
    ELSE Returned(FALSE)

sniffed(parser, file, yaml_available, r) ==
    /\ cp' = [status |-> r.status, parser |-> parser, file |-> file,
              yaml_available |-> yaml_available, answer |-> r.answer,
              error |-> r.error]
    /\ UNCHANGED <<engineVars, pp, ex, frames, heap>>

URDFCanParse ==
    /\ cp.status = "none"
    /\ \E file \in SniffFiles :
          sniffed("urdf", file, TRUE, URDFParser_can_parse(file))

MJCFCanParse ==
    /\ cp.status = "none"
    /\ \E file \in SniffFiles :
          sniffed("mjcf", file, TRUE, MJCFParser_can_parse(file))

SchemaCanParse ==
    /\ cp.status = "none"
    /\ \E file \in SniffFiles, yaml_available \in BOOLEAN :
          sniffed("schema", file, yaml_available,
                  SchemaParser_can_parse(file, yaml_available))

NextCanParse ==
    \/ URDFCanParse
    \/ MJCFCanParse
    \/ SchemaCanParse

SpecCanParse == Init /\ [][NextCanParse]_vars

\* what the decoders make of a file of the engine's file system: a file
\* with the root 'robot' has a link
file_content(f) ==
    File(suffix(f), exists(f),
         CASE RootTag(f) = "robot" -> Text(TRUE, "robot", 1, FALSE, FALSE, FALSE)
           [] RootTag(f) = "mujoco" -> Text(TRUE, "mujoco", 0, FALSE, FALSE, FALSE)
           [] OTHER -> NotXML(FALSE, TRUE, FALSE))

\* tests/test_core.py MockParser.can_parse: file_path.endswith('.mock')
MockParser_can_parse(f) == Returned(suffix(f) = "mock")

\* parser.can_parse(input) of the parser registered under a format name:
\* URDFParser under 'urdf', MJCFParser under 'mjcf', SchemaParser under
\* 'schema' and the tests' MockParser under 'mock'
can_parse(format_name, f) ==
    CASE format_name = "urdf" -> URDFParser_can_parse(file_content(f)).answer
      [] format_name = "mjcf" -> MJCFParser_can_parse(file_content(f)).answer
      [] format_name = "schema" -> SchemaParser_can_parse(file_content(f), TRUE).answer
      [] format_name = "mock" -> MockParser_can_parse(f).answer
      [] OTHER -> FALSE

(***************************************************************************)
(* Round trips: a schema is exported and the written file is parsed back.  *)
(* The schemas have one link that carries the content under test, either   *)
(* as the root link or as the child of a revolute or fixed joint under a   *)
(* plain root link.                                                        *)
(***************************************************************************)
nV == <<"v">>

SizeValues == {Q(n, d) : n \in 0..MaxSize, d \in {1, 10}}

GeometryInputs ==
    {Box(<<x, y, z>>) : x, y, z \in SizeValues}
    \cup {Geometry("box", NoSize, NoNumber, NoNumber),
          Geometry("sphere", NoSize, Some(Q(1, 2)), NoNumber),
          Geometry("sphere", NoSize, Some(Q(0, 1)), NoNumber),
          Geometry("cylinder", NoSize, Some(Q(1, 2)), Some(Q(1, 1))),
          Geometry("plane", NoSize, NoNumber, NoNumber),
          Geometry("mesh", NoSize, NoNumber, NoNumber)}

InertiaInputs ==
    {Inertia(ixx, iyy, izz, ixy, ixz, iyz) :
        ixx \in 0..MaxInertia, iyy \in 0..MaxInertia, izz \in 0..MaxInertia,
        ixy \in {0 - 1, 0, 1}, ixz \in {0 - 1, 0, 1}, iyz \in {0 - 1, 0, 1}}

\* the schema with the link `content' in the given layout
RoundTripSchema(layout, content) ==
    IF layout = "root"
    THEN CommonSchema(<<"r">>, <<content>>, <<>>, <<>>, <<>>)
    ELSE CommonSchema(<<"r">>, <<Link(nA, 1), content>>,
                      <<Joint(nJ1, layout, nA, content.name)>>, <<>>, <<>>)

GeometrySchemas ==
    {RoundTripSchema(layout,
        [Link(nB, 1) EXCEPT !.visuals = <<Visual(nV, g, FALSE)>>,
                            !.collisions = collisions]) :
        layout \in {"root", "revolute", "fixed"},
        g \in GeometryInputs,
        collisions \in {<<>>, <<Collision(nC, Box(<<Q(1, 1), Q(1, 1), Q(1, 1)>>),
                                         FALSE)>>}}

InertiaSchemas ==
    {RoundTripSchema(layout, [Link(nB, mass) EXCEPT !.inertia = inertia]) :
        layout \in {"root", "revolute"},
        mass \in {0, 1},
        inertia \in InertiaInputs}

\* the JointType values
JointTypes == {"revolute", "prismatic", "continuous", "fixed", "floating",
               "planar", "spherical", "universal"}

\* two links and a joint of every type, with and without an actuator or a
\* sensor
FieldSchemas ==
    {CommonSchema(<<"r">>, <<Link(nA, 1), Link(nB, 1)>>,
                  <<[Joint(nJ1, type, nA, nB) EXCEPT !.axis = axis]>>,
                  aux.actuators, aux.sensors) :
        type \in JointTypes,
        axis \in {DefaultAxis, Vector3Over(<<1, 0, 0>>, 1)},
        aux \in AuxInputs}

\* URDFExporter.export of a schema to a file
URDFExport ==
    /\ ex.status = "none" /\ pp.status = "none"
    /\ \E schema \in InertiaSchemas :
          ex' = Exported("urdf", schema, URDFExporter_export(schema))
    /\ UNCHANGED <<engineVars, pp, cp, frames, heap>>

\* URDFParser.parse of the file the exporter wrote
URDFReparse ==
    /\ ex.status = "written" /\ ex.exporter = "urdf" /\ pp.status = "none"
    /\ URDFParser_parse(ex.file)

\* SchemaExporter.export of a schema to a file
SchemaExport ==
    /\ ex.status = "none" /\ pp.status = "none"
    /\ \E schema \in InertiaSchemas \cup FieldSchemas :
          ex' = Exported("schema", schema, Wrote(SchemaExporter_export(schema)))
    /\ UNCHANGED <<engineVars, pp, cp, frames, heap>>

\* SchemaParser.parse of the file the exporter wrote
SchemaReparse ==
    /\ ex.status = "written" /\ ex.exporter = "schema" /\ pp.status = "none"
    /\ SchemaParser_parse(ex.file)

\* MJCFExporter.export of a schema to a file
MJCFExport ==
    /\ ex.status = "none" /\ pp.status = "none"
    /\ \E schema \in GeometrySchemas \cup InertiaSchemas :
          ex' = Exported("mjcf", schema, MJCFExporter_export(schema))
    /\ UNCHANGED <<engineVars, pp, cp, frames, heap>>

\* MJCFParser.parse of the file the exporter wrote
MJCFReparse ==
    /\ ex.status = "written" /\ ex.exporter = "mjcf" /\ pp.status = "none"
    /\ MJCFParser_parse(ex.file)

NextRoundTrip ==
    \/ MJCFExport
    \/ MJCFReparse
    \/ mjcf_parse_bodies
    \/ mjcf_return
    \/ URDFExport
    \/ URDFReparse
    \/ urdf_parse_elements
    \/ urdf_validate_tree
    \/ urdf_return
    \/ SchemaExport
    \/ SchemaReparse

SpecRoundTrip == Init /\ [][NextRoundTrip]_vars

(***************************************************************************)
(* The exporters' specification: one export of a schema.  The schemas are  *)
(* lists of links under joint lists that form trees (also rooted at a link *)
(* named "world"), shared children, cycles and joints to links that are    *)
(* not there.                                                              *)
(***************************************************************************)
StructureLinks ==
    {<<Link(nA, 1)>>, <<Link(nA, 1), Link(nB, 1)>>, <<Link(nB, 1), Link(nA, 1)>>,
     <<Link(nA, 1), Link(nB, 1), Link(nC, 1)>>,
     <<Link(World, 0), Link(nA, 1)>>,
     <<Link(World, 0), Link(nA, 1), Link(nB, 1)>>}

StructureJoints ==
    {Joint(nJ1, "revolute", nA, nB), Joint(nJ2, "revolute", nB, nC),
     Joint(nJ3, "revolute", nC, nB), Joint(nJ4, "fixed", nA, nC),
     Joint(nJ5, "revolute", World, nA), Joint(nJ6, "prismatic", nB, nA)}

StructureSchemas ==
    {CommonSchema(<<"r">>, links, joints, <<>>, <<>>) :
        links \in StructureLinks,
        joints \in InjectiveSeq(StructureJoints, MaxTreeJoints)}

\* visuals with and without a material: no material, a material whose
\* name is None or empty, and two named materials
nRed == <<"r", "e", "d">>
nBlue == <<"b", "l", "u", "e">>

MaterialInputs ==
    {NoMaterial, Material(NoAttr), Material(<<>>), Material(nRed),
     Material(nBlue)}

VisualLists ==
    UNION {[1..n -> {[Visual(nV, Box(<<Q(1, 1), Q(1, 1), Q(1, 1)>>), FALSE)
                         EXCEPT !.material = m] : m \in MaterialInputs}] :
           n \in 0..MaxVisuals}

MaterialSchemas ==
    {CommonSchema(<<"r">>, <<[Link(nA, 1) EXCEPT !.visuals = va]>>, <<>>,
                  <<>>, <<>>) : va \in VisualLists}
    \cup {CommonSchema(<<"r">>, <<[Link(nA, 1) EXCEPT !.visuals = va],
                                  [Link(nB, 1) EXCEPT !.visuals = vb]>>,
                       <<Joint(nJ1, "fixed", nA, nB)>>, <<>>, <<>>) :
             va \in VisualLists, vb \in VisualLists}

\* MJCFExporter.export of a schema whose visuals have materials
MJCFExportMaterials ==
    /\ ex.status = "none" /\ pp.status = "none"
    /\ \E schema \in MaterialSchemas :
          ex' = Exported("mjcf", schema, MJCFExporter_export(schema))
    /\ UNCHANGED <<engineVars, pp, cp, frames, heap>>

\* MJCFExporter.export of a schema
MJCFExportStructure ==
    /\ ex.status = "none" /\ pp.status = "none"
    /\ \E schema \in StructureSchemas \cup FieldSchemas :
          ex' = Exported("mjcf", schema, MJCFExporter_export(schema))
    /\ UNCHANGED <<engineVars, pp, cp, frames, heap>>

\* URDFExporter.export of a schema
URDFExportStructure ==
    /\ ex.status = "none" /\ pp.status = "none"
    /\ \E schema \in StructureSchemas \cup FieldSchemas :
          ex' = Exported("urdf", schema, URDFExporter_export(schema))
    /\ UNCHANGED <<engineVars, pp, cp, frames, heap>>

NextExport ==
    \/ MJCFExportStructure
    \/ MJCFExportMaterials
    \/ URDFExportStructure

SpecExport == Init /\ [][NextExport]_vars

\* documents with shapes: a URDF link with a <visual> or a <collision>
\* with and without <origin>, and an MJCF body with a <geom> with and
\* without pos
UnitBox == Box(<<Q(1, 1), Q(1, 1), Q(1, 1)>>)

ShapeElems ==
    {ShapeElem(GeometryElem("shape", UnitBox), origin) :
        origin \in {"absent", "valid", "invalid"}}
    \cup {ShapeElem(NoGeometryElem, "valid"),
          ShapeElem(GeometryElem("shape", Geometry("sphere", NoSize, Some(Q(1, 2)),
                                                   NoNumber)), "valid")}

ShapeLists == {<<>>} \cup {<<e>> : e \in ShapeElems}
                    \cup {<<e, f>> : e \in ShapeElems, f \in ShapeElems}

ShapeURDFDocs ==
    {Doc("urdf", TRUE, <<"r">>,
         <<[LinkElem(nA, Mass("number", 1)) EXCEPT !.visuals = vs,
                                                   !.collisions = cs]>>
         \o more.links, more.joints, FALSE, <<>>) :
        vs \in ShapeLists, cs \in ShapeLists,
        more \in {[links |-> <<>>, joints |-> <<>>],
                  [links |-> <<LinkElem(nB, Mass("number", 1))>>,
                   joints |-> <<JointElem(nJ1, "revolute", nA, nB)>>]}}

ShapeGeoms ==
    {GeomElem(type, Attr(<<Num(Q(1, 1)), Num(Q(1, 1)), Num(Q(1, 1))>>), "0",
              has_pos) : type \in {"box", "sphere"}, has_pos \in BOOLEAN}

GeomLists == {<<>>} \cup {<<g>> : g \in ShapeGeoms}
                   \cup {<<g, h>> : g \in ShapeGeoms, h \in ShapeGeoms}

ShapeMJCFDocs ==
    {Doc("mjcf", TRUE, <<"m">>, <<>>, <<>>, TRUE,
         <<[BodyElem(nA, FALSE, Mass("number", 1), NoJointElem,
                     <<[BodyElem(nB, FALSE, Mass("number", 1),
                                 MJCFJointElem(nJ1, "hinge"), <<>>)
                          EXCEPT !.geoms = inner]>>)
              EXCEPT !.geoms = outer]>>) :
        outer \in GeomLists, inner \in GeomLists}

\* convert: parser.parse(input_path) of a URDF or an MJCF document
ShapeURDFParse ==
    /\ pp.status = "none"
    /\ \E doc \in ShapeURDFDocs : URDFParser_parse(doc)

ShapeMJCFParse ==
    /\ pp.status = "none"
    /\ \E doc \in ShapeMJCFDocs : MJCFParser_parse(doc)

\* convert: exporter.export(schema, output_path) with the schema the
\* parser returned
URDFExportParsed ==
    /\ pp.status = "returned" /\ ex.status = "none"
    /\ ex' = Exported("urdf", pp.schema, URDFExporter_export(pp.schema))
    /\ UNCHANGED <<engineVars, pp, cp, frames, heap>>

MJCFExportParsed ==
    /\ pp.status = "returned" /\ ex.status = "none"
    /\ ex' = Exported("mjcf", pp.schema, MJCFExporter_export(pp.schema))
    /\ UNCHANGED <<engineVars, pp, cp, frames, heap>>

NextParseExport ==
    \/ ShapeURDFParse
    \/ ShapeMJCFParse
    \/ urdf_parse_elements
    \/ urdf_validate_tree
    \/ urdf_return
    \/ mjcf_parse_bodies
    \/ mjcf_return
    \/ URDFExportParsed
    \/ MJCFExportParsed

SpecParseExport == Init /\ [][NextParseExport]_vars

\* the specification of several parse calls in flight
NextBatchParse ==
    \/ BatchParse
    \/ batch_urdf_elements
    \/ batch_urdf_tree
    \/ batch_urdf_return
    \/ batch_mjcf_bodies
    \/ batch_mjcf_return

SpecBatchParse == Init /\ [][NextBatchParse]_vars

(***************************************************************************)
(* Vocabulary of the claims about the engine.                              *)
(***************************************************************************)
Ops(t) == [i \in 1..Len(t) |-> t[i].op]

IsPrefix(a, b) == Len(a) <= Len(b) /\ a = SubSeq(b, 1, Len(a))

\* parser.parse has returned a schema to the current convert call
Parsed == trace # <<>> /\ call.error.type # "ParseError"

Finished == call.status \in {"returned", "raised"}

\* the formats convert resolves for the frame's arguments
SourceOf(c) == IF c.source_format = None THEN detect_format(c.input)
               ELSE c.source_format
TargetOf(c) == IF c.target_format = None THEN lower(suffix(c.output))
               ELSE c.target_format

Unsupported(c) == lower(SourceOf(c)) \notin parsers
                  \/ lower(TargetOf(c)) \notin exporters

UnsupportedFormatError(e) ==
    /\ e.type = "ValueError"
    /\ e.msg \in {"Cannot detect format", "No parser available for format",
                  "No exporter available for format"}

\* the joint edges parent_link -> child_link and what they reach
Edges(s) == {<<s.joints[i].parent_link, s.joints[i].child_link>> :
                i \in 1..Len(s.joints)}

RECURSIVE ReachFrom(_, _)
ReachFrom(S, E) ==
    LET next == S \cup {e[2] : e \in {d \in E : d[1] \in S}}
    IN  IF next = S THEN S ELSE ReachFrom(next, E)

LinkNames(s) == {s.links[i].name : i \in 1..Len(s.links)}

HasKinematicCycle(s) ==
    \E e \in Edges(s) : e[1] \in ReachFrom({e[2]}, Edges(s))

\* a link no joint connects to the other links of the schema
HasOrphanedLink(s) ==
    /\ Cardinality(LinkNames(s)) >= 2
    /\ \E n \in LinkNames(s) : \A e \in Edges(s) : n # e[1] /\ n # e[2]

HasDanglingReference(s) ==
    \/ \E e \in Edges(s) : e[1] \notin LinkNames(s) \cup {World}
                           \/ e[2] \notin LinkNames(s)
    \/ \E i \in 1..Len(s.actuators) : ~get_joint(s, s.actuators[i].joint)
    \/ \E i \in 1..Len(s.sensors) :
          s.sensors[i].parent_link \notin LinkNames(s) \cup {World}

HasDuplicateName(s) ==
    \/ Cardinality(LinkNames(s)) # Len(s.links)
    \/ Cardinality({s.joints[i].name : i \in 1..Len(s.joints)}) # Len(s.joints)

HasStructuralIssue(s) ==
    \/ HasKinematicCycle(s)
    \/ HasOrphanedLink(s)
    \/ HasDanglingReference(s)
    \/ HasDuplicateName(s)

\* the joints form a tree (or forest) over the links: every link has at most
\* one parent joint, every endpoint is a link or the root sentinel "world",
\* and no joint path returns to its start
JointsFormTree(s) ==
    /\ Len(s.links) >= 1
    /\ Cardinality(LinkNames(s)) = Len(s.links)
    /\ \A e \in Edges(s) : e[1] \in LinkNames(s) \cup {World} /\ e[2] \in LinkNames(s)
    /\ \A i, k \in 1..Len(s.joints) :
          s.joints[i].child_link = s.joints[k].child_link => i = k
    /\ ~HasKinematicCycle(s)

RootNames(s) == {get_root_links(s)[i].name : i \in 1..Len(get_root_links(s))}

(***************************************************************************)
(* C1: in convert with validation enabled, when validate() on the parsed   *)
(* schema returns issues, convert raises a ValueError that carries every   *)
(* issue, export is never called and the output file is not written.       *)
(***************************************************************************)
C1_ValidationFailureRaises ==
    (call.validation /\ Parsed /\ validate(call.schema) # <<>>) =>
        /\ "export" \notin Range(Ops(trace))
        /\ call.output \notin written
        /\ "validate" \in Range(Ops(trace)) =>
              /\ call.status = "raised"
              /\ call.error.type = "ValueError"
              /\ call.error.issues = validate(call.schema)

C1_Witness ==
    /\ call.validation /\ Parsed
    /\ call.status = "raised"
    /\ Len(call.error.issues) >= 2
    /\ Ops(trace) = <<"parse", "validate">>

(***************************************************************************)
(* C2 as stated: whenever the source format has no registered parser or    *)
(* the target format has no registered exporter, a call of                 *)
(* ConversionEngine.convert fails with an unsupported-format error, calls  *)
(* neither parse nor export and writes no output file.                     *)
(***************************************************************************)
C2_UnsupportedAlwaysFormatError ==
    (call.by = "direct" /\ Unsupported(call)) =>
        /\ call.status = "raised"
        /\ UnsupportedFormatError(call.error)
        /\ trace = <<>>
        /\ call.output \notin written

(***************************************************************************)
(* C2 amended: in that case no parse or export is called and no output is  *)
(* written; the error is the unsupported-format error when the input file  *)
(* exists, and FileNotFoundError when it does not (that check comes first).*)
(***************************************************************************)
C2_UnsupportedFailsBeforeParse ==
    (call.by = "direct" /\ Unsupported(call)) =>
        /\ call.status = "raised"
        /\ trace = <<>>
        /\ call.output \notin written
        /\ IF exists(call.input)
           THEN UnsupportedFormatError(call.error)
           ELSE call.error.type = "FileNotFoundError"

C2_Witness ==
    /\ call.by = "direct"
    /\ call.status = "raised"
    /\ exists(call.input)
    /\ lower(SourceOf(call)) \in parsers
    /\ lower(TargetOf(call)) \notin exporters
    /\ call.error.msg = "No exporter available for format"

(***************************************************************************)
(* C3: within one convert call the steps run in the order parse, validate  *)
(* (only with validation enabled), export; a successful call made exactly  *)
(* these calls, export once and with the schema parse returned; with       *)
(* validation disabled export is called even when validate() has issues.   *)
(***************************************************************************)
ExpectedCalls(validation) ==
    IF validation THEN <<"parse", "validate", "export">>
    ELSE <<"parse", "export">>

C3_ParseValidateExportOrder ==
    call.status # "none" =>
        /\ IsPrefix(Ops(trace), ExpectedCalls(call.validation))
        /\ call.status = "returned" =>
              /\ Ops(trace) = ExpectedCalls(call.validation)
              /\ \A i \in 1..Len(trace) : trace[i].schema = trace[1].schema
              /\ call.schema = trace[1].schema
        /\ (~call.validation /\ Parsed /\ Finished) =>
              "export" \in Range(Ops(trace))

C3_Witness ==
    /\ call.status = "returned"
    /\ ~call.validation
    /\ validate(call.schema) # <<>>
    /\ Ops(trace) = <<"parse", "export">>
    /\ call.output \in written

(***************************************************************************)
(* C4 as stated: batch_convert applies the conversion pipeline to every    *)
(* matched file (a file whose formats are registered is parsed), a failing *)
(* file does not stop the loop, and the returned list holds exactly the    *)
(* output paths of the files whose conversion succeeded, all written.      *)
(***************************************************************************)
RECURSIVE SucceededOutputs(_, _, _)
SucceededOutputs(files, outcomes, target_format) ==
    IF files = <<>> \/ outcomes = <<>> THEN <<>>
    ELSE (IF Head(outcomes).status = "returned"
          THEN <<output_file(Head(files), target_format)>> ELSE <<>>)
         \o SucceededOutputs(Tail(files), Tail(outcomes), target_format)

C4_BatchAppliesPipelineToEveryFile ==
    batch.status = "returned" =>
        /\ Len(batch.outcomes) = Len(batch.input_files)
        /\ \A i \in 1..Len(batch.outcomes) :
              (/\ lower(batch.source_format) \in parsers
               /\ lower(batch.target_format) \in exporters)
              => "parse" \in Range(batch.outcomes[i].calls)
        /\ batch.converted_files =
              SucceededOutputs(batch.input_files, batch.outcomes,
                               batch.target_format)
        /\ Range(batch.converted_files) = written

(***************************************************************************)
(* Vocabulary of the claims about the parsers.                             *)
(***************************************************************************)
ElementKinds == {"link", "joint", "body"}

\* the document elements for which an error, a warning was recorded
ErrorsAt == {pp.context.errors[i].at : i \in 1..Len(pp.context.errors)}
WarningsAt == {pp.context.warnings[i].at : i \in 1..Len(pp.context.warnings)}

\* the link name a <parent> or <child> element refers to
link_ref(a) == sanitize_name(IF a = NoAttr THEN <<>> ELSE a)

ProperJoint(e) ==
    /\ e.name \notin {NoAttr, <<>>}
    /\ e.type \in type_mapping
    /\ e.parent # NoElem /\ e.child # NoElem

DeclaredLinks(doc) == {sanitize_name(doc.links[i].name) : i \in 1..Len(doc.links)}

\* the joints of the document whose child link is not declared
UnresolvedChildren(doc) ==
    {i \in 1..Len(doc.joints) : link_ref(doc.joints[i].child) \notin DeclaredLinks(doc)}

DocEdges(doc) ==
    {<<link_ref(doc.joints[i].parent), link_ref(doc.joints[i].child)>> :
        i \in 1..Len(doc.joints)}

DocHasCycle(doc) ==
    \E e \in DocEdges(doc) : e[1] \in ReachFrom({e[2]}, DocEdges(doc))

\* a URDF document without any defect other than, possibly, joints whose
\* child link is not declared and joints that close a cycle
SoundDocument(doc) ==
    /\ doc.format = "urdf" /\ doc.wellformed /\ doc.name # <<>>
    /\ \A i \in 1..Len(doc.links) :
          /\ doc.links[i].name \notin {NoAttr, <<>>}
          /\ doc.links[i].mass.kind # "invalid"
    /\ \A i \in 1..Len(doc.joints) :
          /\ ProperJoint(doc.joints[i])
          /\ link_ref(doc.joints[i].parent) \in DeclaredLinks(doc) \cup {World}

(***************************************************************************)
(* C5 as stated: an element-level issue never aborts URDFParser.parse or   *)
(* MJCFParser.parse (only malformed XML raises); in the returned schema    *)
(* every element for which an error was recorded is absent, and an element *)
(* with warnings only is kept.                                             *)
(***************************************************************************)
C5_ErrorsDropWarningsKeep ==
    /\ pp.status = "raised" => ~pp.doc.wellformed
    /\ pp.status = "returned" =>
          /\ \A at \in ErrorsAt : at.kind \in ElementKinds => at \notin pp.kept
          /\ \A at \in WarningsAt \ ErrorsAt :
                at.kind \in ElementKinds => at \in pp.kept

(***************************************************************************)
(* C6 as stated, less its demand of a meshes map: on every return path the *)
(* schema a parser returns carries, in its extensions, the warnings and    *)
(* the errors recorded during that parse, in order and complete, and the   *)
(* materials map.                                                          *)
(***************************************************************************)
C6_DiagnosticsOnEveryReturnPath ==
    pp.status = "returned" =>
        /\ pp.schema.extensions.attached
        /\ pp.schema.extensions.warnings = pp.context.warnings
        /\ pp.schema.extensions.errors = pp.context.errors
        /\ {"warnings", "errors", "materials"}
              \subseteq pp.schema.extensions.keys

(***************************************************************************)
(* C7 as stated: with validation enabled, every structural-validation      *)
(* issue of the parsed schema (a kinematic cycle, an orphaned link, a      *)
(* dangling joint, actuator or sensor reference, a duplicate link or joint *)
(* name) makes the conversion fail before any output is written.           *)
(***************************************************************************)
C7_StructuralIssuesAreFatal ==
    (call.validation /\ Parsed /\ HasStructuralIssue(call.schema)) =>
        /\ "export" \notin Range(Ops(trace))
        /\ call.output \notin written
        /\ call.status # "returned"

(***************************************************************************)
(* C8: for a URDF document that is sound except for one joint whose child  *)
(* link is not among the declared links (names compared as the parser      *)
(* compares them, after sanitize_name), URDFParser.parse raises nothing    *)
(* and returns a schema whose diagnostics hold exactly one error, the      *)
(* child-link-not-found error naming that link.                            *)
(***************************************************************************)
C8_Case ==
    /\ pp.parser = "urdf"
    /\ SoundDocument(pp.doc)
    /\ ~DocHasCycle(pp.doc)
    /\ Cardinality(UnresolvedChildren(pp.doc)) = 1

C8_UnresolvedChildOneError ==
    C8_Case =>
        /\ pp.status # "raised"
        /\ pp.status = "returned" =>
              LET u == CHOOSE i \in UnresolvedChildren(pp.doc) : TRUE
                  errors == pp.schema.extensions.errors
              IN  /\ pp.schema.extensions.attached
                  /\ Len(errors) = 1
                  /\ errors[1].message = "Child link not found"
                  /\ errors[1].arg = link_ref(pp.doc.joints[u].child)
                  /\ errors[1].at = At("joint", <<u>>)

C8_Witness ==
    /\ C8_Case
    /\ pp.status = "returned"
    /\ Len(pp.doc.joints) >= 2
    /\ Len(pp.schema.extensions.errors) = 1
    /\ pp.schema.extensions.errors[1].arg = <<"c", "_">>

(***************************************************************************)
(* C9 as stated, for documents that are sound otherwise: whenever the      *)
(* joints of the document contain a cycle, whatever other joints it        *)
(* declares and in whatever order, URDFParser.parse returns a schema whose *)
(* diagnostics hold the cycle error.                                       *)
(***************************************************************************)
C9_EveryCycleIsReported ==
    (/\ pp.status = "returned" /\ pp.parser = "urdf"
     /\ SoundDocument(pp.doc)
     /\ UnresolvedChildren(pp.doc) = {}
     /\ DocHasCycle(pp.doc))
    => \E i \in 1..Len(pp.context.errors) :
          pp.context.errors[i].message = CycleError

(***************************************************************************)
(* C10 as stated: for a schema whose joints form a tree, also one rooted   *)
(* at the sentinel "world", get_root_links() returns at least one link and *)
(* every link is reachable from a returned root along the joints.          *)
(***************************************************************************)
C10_TreeHasReachingRoots ==
    (Parsed /\ JointsFormTree(call.schema)) =>
        /\ Len(get_root_links(call.schema)) >= 1
        /\ LinkNames(call.schema) \subseteq
              ReachFrom(RootNames(call.schema), Edges(call.schema))

(***************************************************************************)
(* C11 as stated: validate() accepts a joint endpoint exactly when it      *)
(* names a link of the schema or is the root sentinel "world": it reports  *)
(* an unknown-parent issue for a joint exactly when the joint's            *)
(* parent_link is neither a link nor "world" (so never for "world", as in  *)
(* URDFParser._parse_joint), and an unknown-child issue exactly when the   *)
(* child_link is not a link.                                               *)
(***************************************************************************)
ReportsUnknown(s, msg, j) ==
    \E i \in 1..Len(validate(s)) :
        /\ validate(s)[i].msg = msg
        /\ validate(s)[i].subject = j.name

C11_ValidateAcceptsWorldSentinel ==
    Parsed =>
        \A k \in 1..Len(call.schema.joints) :
            LET j == call.schema.joints[k]
            IN  /\ ReportsUnknown(call.schema,
                                  "Joint references unknown parent link", j)
                   <=> j.parent_link \notin LinkNames(call.schema) \cup {World}
                /\ ReportsUnknown(call.schema,
                                  "Joint references unknown child link", j)
                   <=> j.child_link \notin LinkNames(call.schema)

(***************************************************************************)
(* C12: URDFParser.parse of a document that is well-formed XML returns, in *)
(* document order, exactly one link per link element that has a name, with *)
(* the declared name (sanitized) and the declared numeric mass, and        *)
(* exactly one joint per joint element that has a name, a supported type,  *)
(* a parent and a child, with the declared name, type, parent and child.   *)
(***************************************************************************)
NamedLink(e) == e.name \notin {NoAttr, <<>>}

DeclaredLink(e) ==
    Link(sanitize_name(e.name), IF e.mass.kind = "number" THEN e.mass.value ELSE 0)

DeclaredJoint(e) ==
    Joint(sanitize_name(e.name), e.type, link_ref(e.parent), link_ref(e.child))

ExpectedLinks(doc) ==
    LET named == SelectSeq(doc.links, NamedLink)
    IN  [i \in 1..Len(named) |-> DeclaredLink(named[i])]

ExpectedJoints(doc) ==
    LET proper == SelectSeq(doc.joints, ProperJoint)
    IN  [i \in 1..Len(proper) |-> DeclaredJoint(proper[i])]

ParsedAxes(doc) ==
    IF doc.format = "urdf"
    THEN {[axis |-> doc.joints[i].axis, name |-> sanitize_name(doc.joints[i].name),
           at |-> At("joint", <<i>>)] :
             i \in {k \in 1..Len(doc.joints) : ProperJoint(doc.joints[k])}}
    ELSE UNION {{[axis |-> doc.bodies[i].children[k].joint.axis,
                  name |-> sanitize_name(doc.bodies[i].children[k].joint.name),
                  at |-> At("body", <<i, k>>)] :
                    k \in {n \in 1..Len(doc.bodies[i].children) :
                              doc.bodies[i].children[n].joint.present}} :
                i \in 1..Len(doc.bodies)}

AxisOf(schema, name) ==
    LET k == CHOOSE i \in 1..Len(schema.joints) : schema.joints[i].name = name
    IN  schema.joints[k].axis

ZeroAxisWarnings == {"Zero-magnitude joint axis", "Zero-magnitude joint axis for"}

WarnedZeroAxis(schema, at) ==
    \E i \in 1..Len(schema.extensions.warnings) :
        /\ schema.extensions.warnings[i].message \in ZeroAxisWarnings
        /\ schema.extensions.warnings[i].at = at

\* the vector has magnitude one
IsUnit(a) == SumSq(a.num) = a.den2

Sign(x) == IF x > 0 THEN 1 ELSE IF x < 0 THEN 0 - 1 ELSE 0

\* a is the vector v divided by its magnitude, component by component
IsNormalized(a, v) ==
    /\ a.den2 > 0
    /\ \A i \in 1..3 :
          /\ Sign(a.num[i]) = Sign(v[i])
          /\ a.num[i] * a.num[i] * SumSq(v) = v[i] * v[i] * a.den2

(***************************************************************************)
(* C13: when URDFParser or MJCFParser parses a joint whose axis has three  *)
(* numeric components of magnitude zero, the joint is produced, its axis   *)
(* is the default axis (0,0,1) and a zero-magnitude warning is recorded    *)
(* for that joint.                                                         *)
(***************************************************************************)
C13_ZeroAxisDefaultsWithWarning ==
    pp.status = "returned" =>
        \A j \in ParsedAxes(pp.doc) :
            (j.axis.kind = "vector" /\ SumSq(j.axis.value) = 0) =>
                /\ get_joint(pp.schema, j.name)
                /\ AxisOf(pp.schema, j.name) = DefaultAxis
                /\ WarnedZeroAxis(pp.schema, j.at)

C13_Witness ==
    /\ pp.status = "returned" /\ pp.parser = "mjcf"
    /\ \E j \in ParsedAxes(pp.doc) :
          /\ j.axis = AxisAttr("vector", <<0, 0, 0>>)
          /\ AxisOf(pp.schema, j.name) = DefaultAxis
          /\ WarnedZeroAxis(pp.schema, j.at)

ParsedBack(exporter, parser) ==
    /\ ex.status = "written" /\ ex.exporter = exporter
    /\ pp.status = "returned" /\ pp.parser = parser

LinkOf(schema, name) == find_link(schema, name)

IsSizedBox(g) == g.type = "box" /\ g.size.some

\* the sizes of the boxes among the geometries of a list of visuals or
\* collisions, in order
BoxSizes(items) ==
    LET boxes == SelectSeq(items, LAMBDA x : IsSizedBox(x.geometry))
    IN  [i \in 1..Len(boxes) |-> boxes[i].geometry.size.v]

OnlySizedBoxes(link) ==
    /\ \A i \in 1..Len(link.visuals) : IsSizedBox(link.visuals[i].geometry)
    /\ \A i \in 1..Len(link.collisions) : IsSizedBox(link.collisions[i].geometry)

\* C15: when a schema has been exported to MJCF and the file parsed back,
\* every link of the schema is a link of the result and every box of the
\* link (visual or collision) is a box of the same size (x, y, z) among the
\* visuals and among the collisions of the parsed link; for a link with
\* boxes only, the parsed sizes are exactly the sizes of its visuals
\* followed by the sizes of its collisions.
C15_BoxSizeSurvivesMJCFRoundTrip ==
    ParsedBack("mjcf", "mjcf") =>
        \A i \in 1..Len(ex.schema.links) :
            LET link == ex.schema.links[i]
                sizes == BoxSizes(link.visuals) \o BoxSizes(link.collisions)
            IN  /\ get_link(pp.schema, link.name)
                /\ Range(sizes) \subseteq
                       Range(BoxSizes(LinkOf(pp.schema, link.name).visuals))
                /\ Range(sizes) \subseteq
                       Range(BoxSizes(LinkOf(pp.schema, link.name).collisions))
                /\ OnlySizedBoxes(link) =>
                       /\ BoxSizes(LinkOf(pp.schema, link.name).visuals) = sizes
                       /\ BoxSizes(LinkOf(pp.schema, link.name).collisions) = sizes

\* the box (0.4, 0.3, 0.2) on a child link was written with the size
\* "0.2 0.15 0.1" and parsed back as (0.4, 0.3, 0.2)
C15_Witness ==
    /\ ParsedBack("mjcf", "mjcf")
    /\ Len(ex.schema.links) = 2
    /\ ex.schema.links[2].visuals
         = <<Visual(nV, Box(<<Q(2, 5), Q(3, 10), Q(1, 5)>>), FALSE)>>
    /\ ex.file.bodies[1].children[1].geoms[1].size
         = Attr(<<Num(Q(1, 5)), Num(Q(3, 20)), Num(Q(1, 10))>>)
    /\ LinkOf(pp.schema, nB).visuals[1].geometry
         = Box(<<Q(2, 5), Q(3, 10), Q(1, 5)>>)

\* a link of the exported schema with a physically valid inertia tensor
\* (positive diagonal, triangle inequality) has come back
ValidInertiaLinks ==
    {i \in 1..Len(ex.schema.links) : _validate_inertia(ex.schema.links[i].inertia)}

DiagonalOf(t) == Inertia(t.ixx, t.iyy, t.izz, 0, 0, 0)

\* C16: for every link with a physically valid inertia tensor and a mass
\* >= 0, export followed by re-parse gives a link of the same name with the
\* same six inertia scalars through URDF and through the schema format,
\* and with the same three diagonal terms and zero off-diagonal terms
\* through MJCF.
C16_InertiaSurvivesRoundTrip ==
    \A e \in {"urdf", "mjcf", "schema"} :
        ParsedBack(e, e) =>
            \A i \in ValidInertiaLinks :
                LET link == ex.schema.links[i]
                IN  /\ get_link(pp.schema, link.name)
                    /\ LinkOf(pp.schema, link.name).inertia
                         = IF e = "mjcf" THEN DiagonalOf(link.inertia)
                           ELSE link.inertia

\* C17: when a schema has been exported with SchemaExporter and the file
\* parsed back with SchemaParser, the result has the same name, the same
\* links (name, mass, inertia), the same joints (name, type, parent, child,
\* axis), the same actuators and the same sensors.
C17_SchemaRoundTripIsFieldForField ==
    ParsedBack("schema", "schema") =>
        /\ pp.schema.name = ex.schema.name
        /\ pp.schema.links = ex.schema.links
        /\ pp.schema.joints = ex.schema.joints
        /\ pp.schema.actuators = ex.schema.actuators
        /\ pp.schema.sensors = ex.schema.sensors

(***************************************************************************)
(* C19, C20: can_parse.                                                    *)
(***************************************************************************)
Sniffed(parser) == cp.status # "none" /\ cp.parser = parser

WellFormedWithRoot(file, root) ==
    file.exists /\ file.text.wellformed /\ file.text.root = root

\* C19: a can_parse call of an XML parser returns (it never raises);
\* URDFParser.can_parse answers True exactly for a well-formed file whose
\* root tag is 'robot', MJCFParser.can_parse exactly for one whose root tag
\* is 'mujoco'; both answer False for malformed XML.
C19_XmlSniffIsRootTagTest ==
    /\ Sniffed("urdf") =>
          /\ cp.status = "returned"
          /\ cp.answer <=> WellFormedWithRoot(cp.file, "robot")
    /\ Sniffed("mjcf") =>
          /\ cp.status = "returned"
          /\ cp.answer <=> WellFormedWithRoot(cp.file, "mujoco")

\* the document the file decodes to, by its suffix, has the key 'metadata'
DecodesWithMetadata(file, yaml_available) ==
    /\ \/ lower(file.suffix) \in {"yaml", "yml"} /\ yaml_available
             /\ load(file, "yaml") = "none"
       \/ lower(file.suffix) = "json" /\ load(file, "json") = "none"
    /\ file.text.metadata

\* C20: SchemaParser.can_parse returns (it never raises), and it answers
\* True only for a file that decodes to a document with the top-level key
\* 'metadata'.
C20_SchemaSniffRequiresMetadata ==
    Sniffed("schema") =>
        /\ cp.status = "returned"
        /\ cp.answer => DecodesWithMetadata(cp.file, cp.yaml_available)

(***************************************************************************)
(* C18: detection of the source format.                                    *)
(***************************************************************************)
\* the registered parsers whose can_parse accepts the input of the call
Accepting == {p \in parsers : can_parse(p, call.input)}

\* a direct convert call without source_format on an existing input
DetectedCall ==
    /\ call.status # "none" /\ call.by = "direct"
    /\ call.source_arg = None /\ exists(call.input)

\* C18: in a convert call without source_format, when a registered
\* parser's can_parse accepts the input, detection does not fail and the
\* source format convert resolves is the format name of a parser that
\* accepts the input (so the root tag decides for XML, whatever the
\* extension, and a parser under a custom name is found).
C18_SourceDetectedBySniffingParsers ==
    (DetectedCall /\ Accepting # {}) =>
        /\ call.error.msg \notin {"Cannot detect format",
                                  "No parser available for format"}
        /\ lower(call.source_format) \in Accepting

(***************************************************************************)
(* C21 as stated: the schema MJCFParser.parse returns has exactly one link *)
(* per named body of the document's body tree and no other link (a model   *)
(* with two bodies gives two links), and one actuator per motor that has a *)
(* name and a joint.  The bodies are those of models whose every body      *)
(* parses (no body with quat and without pos).                              *)
(***************************************************************************)
RECURSIVE NamedBodies(_)
NamedBodies(bodies) ==
    IF bodies = <<>> THEN <<>>
    ELSE (IF Head(bodies).name \in {NoAttr, <<>>} THEN <<>>
          ELSE <<sanitize_name(Head(bodies).name)>>
               \o NamedBodies(Head(bodies).children))
         \o NamedBodies(Tail(bodies))

RECURSIVE EveryBodyParses(_)
EveryBodyParses(bodies) ==
    \A i \in 1..Len(bodies) :
        /\ ~bodies[i].quat_without_pos
        /\ EveryBodyParses(bodies[i].children)

ProperMotor(m) == m.name \notin {NoAttr, <<>>} /\ m.joint \notin {NoAttr, <<>>}

ExpectedActuators(doc) ==
    LET proper == SelectSeq(doc.motors, ProperMotor)
    IN  [i \in 1..Len(proper) |->
            Actuator(sanitize_name(proper[i].name), sanitize_name(proper[i].joint))]

C21_OneLinkPerNamedBody ==
    (/\ pp.parser = "mjcf" /\ pp.status = "returned" /\ pp.doc.worldbody
     /\ EveryBodyParses(pp.doc.bodies))
    => /\ [i \in 1..Len(pp.schema.links) |-> pp.schema.links[i].name]
             = NamedBodies(pp.doc.bodies)
       /\ pp.schema.actuators = ExpectedActuators(pp.doc)

(***************************************************************************)
(* C22 as stated: batch_convert called with source format F and the file   *)
(* pattern "*.F" takes up every file of the input directory whose          *)
(* extension is .F and no other file, and returns one output path          *)
(* <input stem>.<target format> per such file that converts.               *)
(***************************************************************************)
FilesWithExtension(F) == {f \in DirFiles : suffix(f) = F}

C22_PatternWithExtensionSelectsFiles ==
    (/\ batch.status = "returned"
     /\ batch.pattern = <<"*", batch.source_format>>)
    => /\ Range(batch.input_files) = FilesWithExtension(batch.source_format)
       /\ batch.converted_files =
             SucceededOutputs(batch.input_files, batch.outcomes,
                              batch.target_format)

(***************************************************************************)
(* C23 as stated: after URDFParser, MJCFParser or SchemaParser returns a   *)
(* schema, its metadata.name is a non-empty string, whatever name          *)
(* (missing, empty, or made only of characters that sanitisation           *)
(* replaces) the source document declares.                                 *)
(***************************************************************************)
C23_ReturnedNameIsNonEmpty ==
    pp.status = "returned" =>
        /\ pp.schema.name # <<>>
        /\ pp.schema.name # NoAttr

(***************************************************************************)
(* Vocabulary of the claims about the exporters.                           *)
(***************************************************************************)
\* the <body> elements of a written MJCF file in document order, each as
\* the pair <<name of the enclosing body, name>>; the bodies directly under
\* <worldbody> have NoName as their enclosing body
RECURSIVE Nesting(_, _)
Nesting(bodies, parent) ==
    IF bodies = <<>> THEN <<>>
    ELSE <<<<parent, Head(bodies).name>>>>
         \o Nesting(Head(bodies).children, Head(bodies).name)
         \o Nesting(Tail(bodies), parent)

\* the joints form a tree (or forest) over the links of the schema: every
\* joint connects two links, no link is the child of two joints, and no
\* joint path returns to its start
TreeOverLinks(s) ==
    /\ JointsFormTree(s)
    /\ \A e \in Edges(s) : e[1] \in LinkNames(s)

(***************************************************************************)
(* C24 as stated: for any schema whose joints form a tree over its links,  *)
(* MJCFExporter.export emits every link as exactly one body element, the   *)
(* root links (never a joint's child_link) directly under worldbody and    *)
(* every other link inside the body of its joint's parent_link; no link is *)
(* omitted or emitted twice.                                               *)
(***************************************************************************)
C24_BodyTreeRebuiltFromJoints ==
    (/\ ex.exporter = "mjcf" /\ ex.status # "none"
     /\ ex.schema.actuators = <<>>
     /\ TreeOverLinks(ex.schema))
    => /\ ex.status = "written"
       /\ Len(Nesting(ex.file.bodies, NoName)) = Len(ex.schema.links)
       /\ Range(Nesting(ex.file.bodies, NoName))
             = {<<NoName, r>> : r \in RootNames(ex.schema)} \cup Edges(ex.schema)

(***************************************************************************)
(* C25 as stated: MJCFParser.parse links every body to its parent.  A body *)
(* without a joint element gets a synthesized fixed joint from the parent  *)
(* passed down the recursion (the enclosing body, or "world" for a body    *)
(* directly under worldbody) to the body, a body with a joint element gets *)
(* that joint, and so every parsed body is the child_link of exactly one   *)
(* joint of the schema.  The models are those whose bodies all have a name *)
(* and parse.                                                              *)
(***************************************************************************)
\* the bodies of a body tree, each with the parent passed down to it
RECURSIVE BodiesUnder(_, _)
BodiesUnder(bodies, parent) ==
    IF bodies = <<>> THEN {}
    ELSE {[parent |-> parent, child |-> sanitize_name(Head(bodies).name),
           explicit |-> Head(bodies).joint.present]}
         \cup BodiesUnder(Head(bodies).children, sanitize_name(Head(bodies).name))
         \cup BodiesUnder(Tail(bodies), parent)

RECURSIVE EveryBodyNamed(_)
EveryBodyNamed(bodies) ==
    \A i \in 1..Len(bodies) :
        /\ bodies[i].name \notin {NoAttr, <<>>}
        /\ EveryBodyNamed(bodies[i].children)

JointsTo(s, b) ==
    {k \in 1..Len(s.joints) : s.joints[k].child_link = b.child}

C25_EveryBodyIsChildOfOneJoint ==
    (/\ pp.parser = "mjcf" /\ pp.status = "returned" /\ pp.doc.worldbody
     /\ EveryBodyParses(pp.doc.bodies) /\ EveryBodyNamed(pp.doc.bodies))
    => \A b \in BodiesUnder(pp.doc.bodies, World) :
          /\ Cardinality(JointsTo(pp.schema, b)) = 1
          /\ \A k \in JointsTo(pp.schema, b) :
                /\ pp.schema.joints[k].parent_link = b.parent
                /\ ~b.explicit => pp.schema.joints[k].type = "fixed"

(***************************************************************************)
(* C26: URDFExporter.export emits exactly one link element per schema link *)
(* and one joint element per schema joint, in schema list order (all       *)
(* links, then all joints), and writes each joint type as its URDF string, *)
(* with "fixed" for the types that have no URDF string (spherical,         *)
(* universal).                                                             *)
(***************************************************************************)
URDFTypeOf(type) == IF type \in {"spherical", "universal"} THEN "fixed" ELSE type

C26_URDFExportOneElementPerItem ==
    (ex.exporter = "urdf" /\ ex.status = "written") =>
        /\ [i \in 1..Len(ex.file.links) |-> ex.file.links[i].name]
              = [i \in 1..Len(ex.schema.links) |-> ex.schema.links[i].name]
        /\ [i \in 1..Len(ex.file.joints) |->
                <<ex.file.joints[i].name, ex.file.joints[i].type,
                  ex.file.joints[i].parent, ex.file.joints[i].child>>]
              = [i \in 1..Len(ex.schema.joints) |->
                    <<ex.schema.joints[i].name, URDFTypeOf(ex.schema.joints[i].type),
                      ex.schema.joints[i].parent_link,
                      ex.schema.joints[i].child_link>>]
        /\ ex.file.elements
              = [i \in 1..(Len(ex.schema.links) + Len(ex.schema.joints)) |->
                    IF i <= Len(ex.schema.links) THEN "link" ELSE "joint"]

C26_Witness ==
    /\ ex.exporter = "urdf" /\ ex.status = "written"
    /\ Len(ex.schema.links) = 2 /\ Len(ex.schema.joints) = 1
    /\ ex.schema.joints[1].type = "spherical"
    /\ ex.file.joints[1].type = "fixed"
    /\ ex.file.elements = <<"link", "link", "joint">>

(***************************************************************************)
(* C27: in the file MJCFExporter.export writes, the asset section has      *)
(* exactly one material for each distinct material name used by the        *)
(* visuals of the schema, however many visuals of one link or of several   *)
(* links use it, and none for a visual without a named material.           *)
(***************************************************************************)
UsedMaterialNames(s) ==
    {s.links[i].visuals[k].material.name :
        <<i, k>> \in {<<a, b>> \in (1..Len(s.links)) \X (1..MaxVisuals + 1) :
                          /\ b <= Len(s.links[a].visuals)
                          /\ s.links[a].visuals[b].material.present
                          /\ s.links[a].visuals[b].material.name # NoAttr
                          /\ s.links[a].visuals[b].material.name # <<>>}}

C27_OneMaterialPerName ==
    (ex.exporter = "mjcf" /\ ex.status = "written") =>
        /\ Range(ex.file.materials) = UsedMaterialNames(ex.schema)
        /\ Len(ex.file.materials) = Cardinality(UsedMaterialNames(ex.schema))

C27_Witness ==
    /\ ex.exporter = "mjcf" /\ ex.status = "written"
    /\ Len(ex.schema.links) = 2
    /\ Len(ex.schema.links[1].visuals) = 2 /\ Len(ex.schema.links[2].visuals) = 2
    /\ ex.schema.links[1].visuals[1].material = Material(nRed)
    /\ ex.schema.links[1].visuals[2].material = Material(nRed)
    /\ ex.schema.links[2].visuals[1].material = NoMaterial
    /\ ex.schema.links[2].visuals[2].material = Material(nRed)
    /\ ex.file.materials = <<nRed>>

(***************************************************************************)
(* C28: diagnostics are per parse.  After any sequence or interleaving of  *)
(* parse calls, the warnings, errors, materials and meshes a returned      *)
(* call's schema refers to are those a parse of that call's file alone     *)
(* produces, and the lists the schema got when the call returned are those *)
(* same ones.                                                              *)
(***************************************************************************)
\* the frame parse(doc) ends in when it is the only call
Alone(doc, order) ==
    IF doc.format = "urdf"
    THEN urdf_schema(urdf_tree(urdf_elements(urdf_enter(doc, ParseContext)),
                               order))
    ELSE IF ~doc.worldbody THEN mjcf_enter(doc, ParseContext)
    ELSE mjcf_schema(mjcf_bodies(mjcf_enter(doc, ParseContext)))

OwnDiagnostics(f, context) ==
    /\ \E order \in Perms({f.links[i].name : i \in 1..Len(f.links)}) :
          context = Alone(f.doc, order).context
    /\ f.schema.extensions.attached =>
          /\ f.schema.extensions.warnings = context.warnings
          /\ f.schema.extensions.errors = context.errors
          /\ f.schema.extensions.materials = context.materials
          /\ f.schema.extensions.meshes = context.meshes

C28_DiagnosticsArePerParse ==
    \A k \in 1..Len(frames) :
        frames[k].local.status = "returned" =>
            OwnDiagnostics(frames[k].local, heap[frames[k].ref])

\* the second call began after the first and has returned, with warnings
\* and a material of its own, while the first, which has recorded an
\* error, is still between its loops and its tree check
C28_Witness ==
    /\ Len(frames) >= 2 /\ frames[1].ref = 1 /\ frames[2].ref = 2
    /\ frames[1].local.status = "running" /\ frames[1].local.stage = "tree"
    /\ frames[1].local.parser = "urdf"
    /\ heap[1].errors # <<>>
    /\ frames[2].local.status = "returned" /\ frames[2].local.parser = "mjcf"
    /\ heap[2].warnings # <<>> /\ heap[2].errors = <<>>
    /\ heap[2].materials = {<<"b", "l", "u", "e">>}
    /\ heap[1].materials = {}

(***************************************************************************)
(* C29: MJCFExporter.export terminates on every schema that                *)
(* CommonSchema.validate() accepts: the recursive emission of the bodies   *)
(* visits finitely many bodies and the export returns, also when a link is *)
(* the child of more than one joint or the joints reachable from a root    *)
(* form a cycle.                                                           *)
(***************************************************************************)
C29_ExportOfValidSchemaTerminates ==
    (ex.exporter = "mjcf" /\ ex.status # "none" /\ validate(ex.schema) = <<>>) =>
        ~(ex.status = "raised" /\ ex.error.type = "RecursionError")

(***************************************************************************)
(* C30: URDFExporter.export completes without error on every schema that   *)
(* URDFParser.parse or MJCFParser.parse returns, also when a visual or a   *)
(* collision was declared without an origin or a pos: a conversion of a    *)
(* document that parses and validates writes an output file.               *)
(***************************************************************************)
C30_ParsedSchemaExportsToURDF ==
    (/\ pp.status = "returned" /\ validate(pp.schema) = <<>>
     /\ ex.status # "none" /\ ex.exporter = "urdf") =>
        ex.status = "written"

====
